---- MODULE Spec2Model ----
(***************************************************************************)
(* A model of the palette colour library: the hexadecimal text format of   *)
(* 8-bit RGB (parsing and formatting), the packed u32 conversions, and the *)
(* bounds / clamp / mix / lighten operators of Rgb, Xyz, Lab, Luv and the  *)
(* Alpha wrapper.                                                          *)
(*                                                                         *)
(* Every operation of the library is a pure function of its arguments.     *)
(* A specification draws an input (arg) from a bounded set in its initial  *)
(* state; each action applies one operation to it and records the          *)
(* operation's name (op) and its outcome (res).                            *)
(***************************************************************************)
EXTENDS Integers, Sequences, FiniteSets, TLC

VARIABLES op, arg, res

vars == <<op, arg, res>>

\* The value of res before any operation has run.
NoResult == [kind |-> "None"]

(***************************************************************************)
(* Text.  A &str is modelled as the sequence of its characters; each       *)
(* character is a one-element token.  Rust measures and slices a &str in   *)
(* bytes of its UTF-8 encoding, so each character carries its encoded      *)
(* width.  "U+00E9" (e acute) encodes to 2 bytes, "U+20AC" (euro sign) to  *)
(* 3 bytes, every ASCII character to 1 byte.                               *)
(***************************************************************************)
LowerDigits == <<"0", "1", "2", "3", "4", "5", "6", "7", "8", "9",
                 "a", "b", "c", "d", "e", "f">>

UpperDigits == <<"0", "1", "2", "3", "4", "5", "6", "7", "8", "9",
                 "A", "B", "C", "D", "E", "F">>

HexChars == {LowerDigits[i] : i \in 1..16} \cup {UpperDigits[i] : i \in 1..16}

\* Characters that are not hexadecimal digits: ASCII ones and multi-byte ones.
OtherAscii == {"#", "+", "-", "g"}

MultiByte == {"U+00E9", "U+20AC"}

Utf8Len(c) == IF c = "U+00E9" THEN 2 ELSE IF c = "U+20AC" THEN 3 ELSE 1

RECURSIVE ByteLen(_)
\* str::len: the length of the string in bytes.
ByteLen(s) == IF s = <<>> THEN 0 ELSE Utf8Len(Head(s)) + ByteLen(Tail(s))

\* The byte offsets at which a character of s starts, and the end of s.
CharBoundaries(s) == {ByteLen(SubSeq(s, 1, k)) : k \in 0..Len(s)}

\* The characters of s that lie in the byte range [i, j), both char boundaries.
CharsBetween(s, i, j) ==
    LET first == CHOOSE k \in 0..Len(s) : ByteLen(SubSeq(s, 1, k)) = i
        last  == CHOOSE k \in 0..Len(s) : ByteLen(SubSeq(s, 1, k)) = j
    IN SubSeq(s, first + 1, last)

\* &s[i..j]: a slice by byte offsets. It panics when an offset is past the
\* end, when i > j, or when an offset is not on a character boundary.
StrSlice(s, i, j) ==
    IF i <= j /\ i \in CharBoundaries(s) /\ j \in CharBoundaries(s)
    THEN [panic |-> FALSE, str |-> CharsBetween(s, i, j)]
    ELSE [panic |-> TRUE, str |-> <<>>]

\* str::strip_prefix('#').map_or(hex, |stripped| stripped)
StripHash(hex) == IF hex # <<>> /\ Head(hex) = "#" THEN Tail(hex) ELSE hex

(***************************************************************************)
(* u8::from_str_radix(src, 16) of the standard library: an empty string    *)
(* and a lone sign are errors, one leading '+' is accepted and skipped     *)
(* ('-' is not a sign of an unsigned type and counts as a digit), every    *)
(* remaining byte must be a hexadecimal digit, and the value must fit u8.  *)
(***************************************************************************)
U8Max == 2^8 - 1

ToDigit(c) ==
    IF \E i \in 1..16 : LowerDigits[i] = c
    THEN (CHOOSE i \in 1..16 : LowerDigits[i] = c) - 1
    ELSE IF \E i \in 1..16 : UpperDigits[i] = c
    THEN (CHOOSE i \in 1..16 : UpperDigits[i] = c) - 1
    ELSE -1

RECURSIVE DigitsValue(_, _)
\* The digits of ds accumulated onto acc in base 16; -1 for an invalid digit,
\* -2 when the value exceeds u8.
DigitsValue(ds, acc) ==
    IF ds = <<>> THEN acc
    ELSE IF ToDigit(Head(ds)) < 0 THEN -1
    ELSE IF acc * 16 + ToDigit(Head(ds)) > U8Max THEN -2
    ELSE DigitsValue(Tail(ds), acc * 16 + ToDigit(Head(ds)))

ParseErr(e) == [ok |-> FALSE, val |-> 0, err |-> e]

ParseU8Hex(src) ==
    IF src = <<>> THEN ParseErr("Empty")
    ELSE IF Len(src) = 1 /\ Head(src) \in {"+", "-"} THEN ParseErr("InvalidDigit")
    ELSE LET digits == IF Head(src) = "+" THEN Tail(src) ELSE src
             v == DigitsValue(digits, 0)
         IN IF v = -1 THEN ParseErr("InvalidDigit")
            ELSE IF v = -2 THEN ParseErr("PosOverflow")
            ELSE [ok |-> TRUE, val |-> v, err |-> "None"]

(***************************************************************************)
(* impl FromStr for Rgb<S, u8>.  The outcome is Ok(colour), one of the two *)
(* FromHexError variants, or a panic (an out-of-boundary slice).  The `?`  *)
(* after each channel returns at the first failure, before the next slice  *)
(* is taken.  `at` records the channel whose slice or digits failed.       *)
(***************************************************************************)
HexOutcome(k, r, g, b, e, c, o) ==
    [kind |-> k, red |-> r, green |-> g, blue |-> b, err |-> e, at |-> c,
     overflow |-> o]

\* u8 multiplication: the product wraps modulo 2^8 (a debug build panics
\* instead); overflow tells whether the exact product left the u8 range.
U8Mul(a, b) == [val |-> (a * b) % (U8Max + 1), overflow |-> a * b > U8Max]

\* One channel: the slice &hex_code[i..j], then u8::from_str_radix(.., 16).
HexChannel(hex_code, i, j) ==
    LET sl == StrSlice(hex_code, i, j)
    IN IF sl.panic THEN [st |-> "Panic", val |-> 0, err |-> "None"]
       ELSE LET p == ParseU8Hex(sl.str)
            IN IF p.ok THEN [st |-> "Ok", val |-> p.val, err |-> "None"]
               ELSE [st |-> "Err", val |-> 0, err |-> p.err]

ChannelFailure(ch, name) ==
    IF ch.st = "Panic"
    THEN HexOutcome("Panic", 0, 0, 0, "None", name, FALSE)
    ELSE HexOutcome("ParseIntError", 0, 0, 0, ch.err, name, FALSE)

\* A digit shifted into the high nibble only (d0 instead of dd).
ShiftOnlyFactor == 2^4

\* The factor that turns one hexadecimal digit d into the byte dd.
ShortFactor == 17

\* The body lengths, in bytes, of the two accepted forms.
ShortLen == 3

LongLen == 6

\* The arm `3 =>` of from_str: one byte per channel, each multiplied by 17.
from_str_short(hex_code) ==
    LET red   == HexChannel(hex_code, 0, 1)
        green == HexChannel(hex_code, 1, 2)
        blue  == HexChannel(hex_code, 2, 3)
    IN IF red.st # "Ok" THEN ChannelFailure(red, "red")
       ELSE IF green.st # "Ok" THEN ChannelFailure(green, "green")
       ELSE IF blue.st # "Ok" THEN ChannelFailure(blue, "blue")
       ELSE LET r == U8Mul(red.val, ShortFactor)
                g == U8Mul(green.val, ShortFactor)
                b == U8Mul(blue.val, ShortFactor)
            IN HexOutcome("Ok", r.val, g.val, b.val, "None", "none",
                          r.overflow \/ g.overflow \/ b.overflow)

\* The arm `6 =>` of from_str: two bytes per channel.
from_str_long(hex_code) ==
    LET red   == HexChannel(hex_code, 0, 2)
        green == HexChannel(hex_code, 2, 4)
        blue  == HexChannel(hex_code, 4, 6)
    IN IF red.st # "Ok" THEN ChannelFailure(red, "red")
       ELSE IF green.st # "Ok" THEN ChannelFailure(green, "green")
       ELSE IF blue.st # "Ok" THEN ChannelFailure(blue, "blue")
       ELSE HexOutcome("Ok", red.val, green.val, blue.val, "None", "none", FALSE)

from_str(hex) ==
    LET hex_code == StripHash(hex)
    IN IF ByteLen(hex_code) = ShortLen THEN from_str_short(hex_code)
       ELSE IF ByteLen(hex_code) = LongLen THEN from_str_long(hex_code)
       ELSE HexOutcome("HexFormatError", 0, 0, 0, "None", "none", FALSE)

(***************************************************************************)
(* The inputs of from_str.  Short bodies range over every hexadecimal      *)
(* digit of either case and the non-digit characters; long bodies range    *)
(* over a small alphabet (a digit, a sign, a 2-byte character); six-digit  *)
(* bodies are built from sample pairs of digits, non-digits and signs.     *)
(* Every body is taken with and without a leading '#'.                     *)
(***************************************************************************)
\* The longest long body, in characters.
MaxLongLen == 7

FullAlphabet == HexChars \cup OtherAscii \cup MultiByte

SmallAlphabet == {"F", "+", "U+00E9"}

SeqsUpTo(S, lo, hi) == UNION {[1..n -> S] : n \in lo..hi}

PairSamples == {<<"0", "0">>, <<"1", "2">>, <<"7", "f">>, <<"8", "0">>,
                <<"F", "F">>, <<"a", "B">>, <<"g", "g">>, <<"0", "g">>,
                <<"+", "1">>}

SixDigitBodies == {p \o q \o r : p \in PairSamples, q \in PairSamples, r \in PairSamples}

HexBodies ==
    SeqsUpTo(FullAlphabet, 0, ShortLen)
        \cup SeqsUpTo(SmallAlphabet, ShortLen + 1, MaxLongLen)
        \cup SixDigitBodies

HexInputs == HexBodies \cup {<<"#">> \o b : b \in HexBodies}

InitFromStr == op = "input" /\ arg \in HexInputs /\ res = NoResult

\* "...".parse::<Rgb<S, u8>>() / Rgb::from_str
FromStr ==
    /\ op = "input"
    /\ op' = "from_str"
    /\ res' = from_str(arg)
    /\ UNCHANGED arg

NextFromStr == FromStr

SpecFromStr == InitFromStr /\ [][NextFromStr]_vars

(***************************************************************************)
(* Claims about from_str.                                                  *)
(***************************************************************************)
Parsed == op = "from_str"

\* The body of the parsed string: the string without one leading '#'.
Body == StripHash(arg)

IsHexString(s) == \A i \in 1..Len(s) : s[i] \in HexChars

IsAscii(s) == \A i \in 1..Len(s) : Utf8Len(s[i]) = 1

\* C1: for every input string, non-ASCII ones included, from_str returns
\* Ok(colour), Err(ParseIntError) or Err(HexFormatError); it never panics.
C1_NeverPanics ==
    Parsed => res.kind \in {"Ok", "ParseIntError", "HexFormatError"}

\* C2: a string whose body has 3 or 6 characters, at least one of them not a
\* hexadecimal digit, is never parsed to Ok.
C2_NonHexBodyNeverOk ==
    (Parsed /\ Len(Body) \in {ShortLen, LongLen} /\ ~IsHexString(Body))
        => res.kind # "Ok"

\* The channel texts of an ASCII body of an accepted length, in parse order.
ChannelTexts(body) ==
    LET w == Len(body) \div 3
    IN [k \in 1..3 |-> SubSeq(body, (k - 1) * w + 1, k * w)]

ChannelNames == <<"red", "green", "blue">>

\* C3: HexFormatError is returned exactly when the body length is neither 3
\* nor 6 (the empty string and "#" alone included); with a body length of 3
\* or 6 every failure is a ParseIntError, raised by the first channel (red,
\* green, blue) whose digits do not parse.
C3_ErrorVariantByLength ==
    Parsed =>
        /\ res.kind = "HexFormatError" <=> ByteLen(Body) \notin {ShortLen, LongLen}
        /\ (ByteLen(Body) \in {ShortLen, LongLen} /\ res.kind # "Ok")
               => res.kind = "ParseIntError"
        /\ (IsAscii(Body) /\ res.kind = "ParseIntError")
               => \E k \in 1..3 :
                      /\ res.at = ChannelNames[k]
                      /\ ~ParseU8Hex(ChannelTexts(Body)[k]).ok
                      /\ \A j \in 1..(k - 1) : ParseU8Hex(ChannelTexts(Body)[j]).ok

\* The 6-digit form of a 3-digit body: every digit written twice.
Doubled(body) == <<body[1], body[1], body[2], body[2], body[3], body[3]>>

\* C4: for hexadecimal digits r, g, b the 3-digit form "rgb", with or without
\* '#', parses to Ok(17*r, 17*g, 17*b); no product leaves 0..255, so the u8
\* multiplication does not overflow; and the result is that of the 6-digit
\* form "rrggbb".
C4_ShortFormDuplicatesDigits ==
    (Parsed /\ Len(Body) = ShortLen /\ IsHexString(Body)) =>
        /\ res.kind = "Ok"
        /\ res.red = 17 * ToDigit(Body[1])
        /\ res.green = 17 * ToDigit(Body[2])
        /\ res.blue = 17 * ToDigit(Body[3])
        /\ ~res.overflow
        /\ \A ch \in {res.red, res.green, res.blue} : ch \in 0..U8Max
        /\ res = from_str(Doubled(Body))
        /\ res = from_str(<<"#">> \o Doubled(Body))

\* C4 witness: "#08f" has been parsed to (0, 136, 255).
C4_Witness ==
    /\ Parsed
    /\ arg = <<"#", "0", "8", "f">>
    /\ res.kind = "Ok" /\ res.red = 0 /\ res.green = 136 /\ res.blue = 255

(***************************************************************************)
(* Colour values.  A colour is a record of its channels; Alpha<C, T> pairs *)
(* a colour with an alpha channel.                                         *)
(***************************************************************************)
Rgb(r, g, b) == [red |-> r, green |-> g, blue |-> b]

Alpha(c, a) == [color |-> c, alpha |-> a]

\* impl From<C> for Alpha<C, T>: a colour without transparency is opaque.
\* max_intensity is the maximum of the component type T.
AlphaTransparentFrom(color, max_intensity) == Alpha(color, 0)

AlphaFrom(color, max_intensity) == Alpha(color, max_intensity)

(***************************************************************************)
(* Packed u32.  A channel order names the four bytes of the integer from   *)
(* the most significant to the least significant one.                      *)
(***************************************************************************)
ChannelOrders == {"Abgr", "Argb", "Bgra", "Rgba"}

\* A u32 is kept as its two 16-bit halves (the model checker's integers are
\* 32-bit signed): the value is hi * 2^16 + lo.
U32(b3, b2, b1, b0) == [hi |-> b3 * 2^8 + b2, lo |-> b1 * 2^8 + b0]

\* Byte k of a u32, k = 3 the most significant: (x >> 8k) & 0xFF.
U32Byte(x, k) ==
    CASE k = 3 -> x.hi \div 2^8
      [] k = 2 -> x.hi % 2^8
      [] k = 1 -> x.lo \div 2^8
      [] k = 0 -> x.lo % 2^8

OrderBytes(O) ==
    CASE O = "Abgr" -> <<"alpha", "blue", "green", "red">>
      [] O = "Argb" -> <<"alpha", "red", "green", "blue">>
      [] O = "Bgra" -> <<"blue", "green", "red", "alpha">>
      [] O = "Rgba" -> <<"red", "green", "blue", "alpha">>

RgbaChannel(c, name) == IF name = "alpha" THEN c.alpha ELSE c.color[name]

\* ComponentOrder::pack: the byte at position i of the order (1 = most
\* significant) is the channel the order names there.
pack(O, c) ==
    LET byte(i) == RgbaChannel(c, OrderBytes(O)[i])
    IN U32(byte(1), byte(2), byte(3), byte(4))

\* ComponentOrder::unpack: each channel is read from the byte at the position
\* the order names it.
unpack(O, packed) ==
    LET pos(name) == CHOOSE i \in 1..4 : OrderBytes(O)[i] = name
        byte(name) == U32Byte(packed, 4 - pos(name))
    IN Alpha(Rgb(byte("red"), byte("green"), byte("blue")), byte("alpha"))

\* Rgb<S, u8>::into_u32::<O>
Rgb_into_u32(O, c) == pack(O, AlphaFrom(c, U8Max))

\* A from_u32 that reads every integer as 0xAARRGGBB, whatever O is.
Rgb_from_u32_fixed_order(O, color) == unpack("Argb", color).color

\* Rgb<S, u8>::from_u32::<O>
Rgb_from_u32(O, color) == unpack(O, color).color

\* Rgba<S, u8>::into_u32::<O>
Rgba_into_u32(O, c) == pack(O, c)

\* Rgba<S, u8>::from_u32::<O>
Rgba_from_u32(O, color) == unpack(O, color)

\* impl From<u32> for Rgb<S, u8>
RgbFromU32(color) == Rgb_from_u32("Argb", color)

\* impl From<u32> for Rgba<S, u8>
RgbaFromU32(color) == Rgba_from_u32("Rgba", color)

\* A default conversion that packs a 3-channel colour as 0xRRGGBBAA.
U32FromRgb_as_rgba(color) == Rgb_into_u32("Rgba", color)

\* impl From<Rgb<S, u8>> for u32
U32FromRgb(color) == Rgb_into_u32("Argb", color)

\* impl From<Rgba<S, u8>> for u32
U32FromRgba(color) == Rgba_into_u32("Rgba", color)

(***************************************************************************)
(* The packed-integer specification.  An input is an 8-bit colour or a u32 *)
(* together with the conversion to use: a channel order, or "default" for  *)
(* the From / Into impls.  Conversions apply to the current value (res);   *)
(* op is the sequence of the conversions applied so far, so a colour can   *)
(* be packed and unpacked again (and the reverse).                         *)
(***************************************************************************)
\* Channel samples: this many values at each end of 0..255, and mid values.
EdgeWidth == 1

ByteSamples == (0..EdgeWidth) \cup ((U8Max - EdgeWidth)..U8Max) \cup {127, 128}

\* The longest chain of conversions applied to one input.
MaxConversions == 2

RgbSamples == {Rgb(r, g, b) : r \in ByteSamples, g \in ByteSamples, b \in ByteSamples}

RgbaSamples == {Alpha(c, a) : c \in RgbSamples, a \in ByteSamples}

U32Samples ==
    {U32(b3, b2, b1, b0) :
        b3 \in ByteSamples, b2 \in ByteSamples, b1 \in ByteSamples, b0 \in ByteSamples}

Conversions == ChannelOrders \cup {"default"}

PackedInputs ==
    {[ty |-> "Rgb", target |-> "Rgb", val |-> c, order |-> O] :
        c \in RgbSamples, O \in Conversions}
    \cup {[ty |-> "Rgba", target |-> "Rgba", val |-> c, order |-> O] :
        c \in RgbaSamples, O \in Conversions}
    \cup {[ty |-> "u32", target |-> t, val |-> x, order |-> O] :
        t \in {"Rgb", "Rgba"}, x \in U32Samples, O \in Conversions}

Typed(t, v) == [ty |-> t, val |-> v]

InitPacked ==
    /\ arg \in PackedInputs
    /\ op = <<>>
    /\ res = Typed(arg.ty, arg.val)

\* into_u32::<O>() of Rgb<S, u8> and of Rgba<S, u8>
IntoU32 ==
    /\ Len(op) < MaxConversions
    /\ arg.order \in ChannelOrders
    /\ res.ty \in {"Rgb", "Rgba"}
    /\ res' = Typed("u32", IF res.ty = "Rgb" THEN Rgb_into_u32(arg.order, res.val)
                           ELSE Rgba_into_u32(arg.order, res.val))
    /\ op' = Append(op, "into_u32")
    /\ UNCHANGED arg

\* from_u32::<O>() of Rgb<S, u8> and of Rgba<S, u8>
FromU32 ==
    /\ Len(op) < MaxConversions
    /\ arg.order \in ChannelOrders
    /\ res.ty = "u32"
    /\ res' = Typed(arg.target, IF arg.target = "Rgb" THEN Rgb_from_u32(arg.order, res.val)
                                ELSE Rgba_from_u32(arg.order, res.val))
    /\ op' = Append(op, "from_u32")
    /\ UNCHANGED arg

\* u32::from(colour)
U32From ==
    /\ Len(op) < MaxConversions
    /\ arg.order = "default"
    /\ res.ty \in {"Rgb", "Rgba"}
    /\ res' = Typed("u32", IF res.ty = "Rgb" THEN U32FromRgb(res.val)
                           ELSE U32FromRgba(res.val))
    /\ op' = Append(op, "u32::from")
    /\ UNCHANGED arg

\* Rgb::from(u32) and Rgba::from(u32)
ColorFrom ==
    /\ Len(op) < MaxConversions
    /\ arg.order = "default"
    /\ res.ty = "u32"
    /\ res' = Typed(arg.target, IF arg.target = "Rgb" THEN RgbFromU32(res.val)
                                ELSE RgbaFromU32(res.val))
    /\ op' = Append(op, "from")
    /\ UNCHANGED arg

NextPacked == IntoU32 \/ FromU32 \/ U32From \/ ColorFrom

SpecPacked == InitPacked /\ [][NextPacked]_vars

\* C5: an 8-bit Rgb or Rgba value packed with channel order O and unpacked
\* with the same O is the value itself.
C5_PackUnpackRoundTrip ==
    (op = <<"into_u32", "from_u32">>) => (res.ty = arg.ty /\ res.val = arg.val)

\* C5 witness: Rgb(1, 127, 0) went through 0x007F01FF (order Bgra) and back.
C5_Witness ==
    /\ op = <<"into_u32", "from_u32">>
    /\ arg.ty = "Rgb" /\ arg.order = "Bgra"
    /\ arg.val = Rgb(1, 127, 0)
    /\ res.val = Rgb(1, 127, 0)

\* C6: the default conversions use ARGB for Rgb and RGBA for Rgba:
\* u32::from(Rgb(r,g,b)) = 0xFF000000 | r<<16 | g<<8 | b; Rgb::from(x) reads
\* red, green, blue from bits 16-23, 8-15, 0-7 and ignores the top byte, so
\* u32 -> Rgb -> u32 gives x | 0xFF000000; u32::from(Rgba(r,g,b,a)) =
\* r<<24 | g<<16 | b<<8 | a, and Rgba::from(x) reads the bytes in that order.
C6_DefaultOrders ==
    /\ (op = <<"u32::from">> /\ arg.ty = "Rgb") =>
           /\ res.val.hi = 255 * 2^8 + arg.val.red
           /\ res.val.lo = arg.val.green * 2^8 + arg.val.blue
    /\ (op = <<"from">> /\ arg.target = "Rgb") =>
           /\ res.val.red = arg.val.hi % 256
           /\ res.val.green = arg.val.lo \div 256
           /\ res.val.blue = arg.val.lo % 256
    /\ (op = <<"from", "u32::from">> /\ arg.target = "Rgb") =>
           /\ res.val.hi = (arg.val.hi % 256) + 255 * 2^8
           /\ res.val.lo = arg.val.lo
    /\ (op = <<"u32::from">> /\ arg.ty = "Rgba") =>
           /\ res.val.hi = arg.val.color.red * 2^8 + arg.val.color.green
           /\ res.val.lo = arg.val.color.blue * 2^8 + arg.val.alpha
    /\ (op = <<"from">> /\ arg.target = "Rgba") =>
           /\ res.val.color.red = arg.val.hi \div 256
           /\ res.val.color.green = arg.val.hi % 256
           /\ res.val.color.blue = arg.val.lo \div 256
           /\ res.val.alpha = arg.val.lo % 256

\* C6 witness: 0x7FFFFF80 became Rgb(255, 255, 128) and then 0xFFFFFF80.
C6_Witness ==
    /\ op = <<"from", "u32::from">>
    /\ arg.target = "Rgb"
    /\ arg.val = [hi |-> 127 * 2^8 + 255, lo |-> 255 * 2^8 + 128]
    /\ res.val = [hi |-> 255 * 2^8 + 255, lo |-> 255 * 2^8 + 128]

(***************************************************************************)
(* Hexadecimal formatting: impl LowerHex / UpperHex for Rgb<S, T> and for  *)
(* Alpha<C, T>, T an unsigned integer type.                                *)
(***************************************************************************)
\* core::mem::size_of::<T>()
size_of(T) == CASE T = "u8" -> 1 [] T = "u16" -> 2

\* T::max_value() of an unsigned integer type
UIntMax(T) == 2^(8 * size_of(T)) - 1

RECURSIVE HexDigitsOf(_, _)
\* The digits of v in base 16, most significant first, without leading zeros
\* ("0" for zero), taken from the digit table.
HexDigitsOf(v, table) ==
    IF v < 16 THEN <<table[v + 1]>>
    ELSE Append(HexDigitsOf(v \div 16, table), table[(v % 16) + 1])

\* "{:0width$x}" of an integer: zero-padded on the left up to width digits;
\* a longer number is written in full.
FmtHexInt(v, width, table) ==
    LET digits == HexDigitsOf(v, table)
    IN IF Len(digits) >= width THEN digits
       ELSE [i \in 1..(width - Len(digits)) |-> "0"] \o digits

\* Formatter::width() when the format string gives no width.
NoWidth == -1

\* A size that ignores the formatter's width.
FmtSize_default_only(fwidth, T) == size_of(T) * 2

\* f.width().unwrap_or(size_of::<T>() * 2)
FmtSize(fwidth, T) == IF fwidth = NoWidth THEN size_of(T) * 2 ELSE fwidth

Rgb_fmt_hex(c, fwidth, T, table) ==
    LET size == FmtSize(fwidth, T)
    IN FmtHexInt(c.red, size, table) \o FmtHexInt(c.green, size, table)
           \o FmtHexInt(c.blue, size, table)

\* A LowerHex that pads no channel.
Rgb_LowerHex_unpadded(c, fwidth, T) == Rgb_fmt_hex(c, 1, T, LowerDigits)

\* impl LowerHex for Rgb<S, T>
Rgb_LowerHex(c, fwidth, T) == Rgb_fmt_hex(c, fwidth, T, LowerDigits)

\* impl UpperHex for Rgb<S, T>
Rgb_UpperHex(c, fwidth, T) == Rgb_fmt_hex(c, fwidth, T, UpperDigits)

\* impl LowerHex for Alpha<C, T>: the colour is formatted by its own impl
\* under a formatter whose width is size, then alpha with the same width.
Alpha_LowerHex(c, fwidth, T) ==
    LET size == FmtSize(fwidth, T)
    IN Rgb_LowerHex(c.color, size, T) \o FmtHexInt(c.alpha, size, LowerDigits)

\* impl UpperHex for Alpha<C, T>
Alpha_UpperHex(c, fwidth, T) ==
    LET size == FmtSize(fwidth, T)
    IN Rgb_UpperHex(c.color, size, T) \o FmtHexInt(c.alpha, size, UpperDigits)

(***************************************************************************)
(* The formatting specification: a colour of u8 or u16 channels, with or   *)
(* without alpha, and a formatter width (or none).                         *)
(***************************************************************************)
\* The largest formatter width tried.
MaxWidth == 5

UIntTypes == {"u8", "u16"}

ChannelSamples(T) ==
    IF T = "u8" THEN {0, 1, 15, 16, 171, UIntMax(T)}
    ELSE {0, 10, 255, 256, 43981, UIntMax(T)}

\* The inputs whose channels have component type T.
FmtInputs(T) ==
    {[T |-> T, alpha |-> FALSE, width |-> w, c |-> Rgb(r, g, b)] :
        w \in {NoWidth} \cup 0..MaxWidth,
        r \in ChannelSamples(T), g \in ChannelSamples(T), b \in ChannelSamples(T)}
    \cup {[T |-> T, alpha |-> TRUE, width |-> w, c |-> Alpha(Rgb(r, g, b), a)] :
        w \in {NoWidth} \cup 0..MaxWidth,
        r \in ChannelSamples(T), g \in ChannelSamples(T), b \in ChannelSamples(T),
        a \in ChannelSamples(T)}

InitHexFmt ==
    /\ op = "input"
    /\ \E T \in UIntTypes : arg \in FmtInputs(T)
    /\ res = NoResult

\* format!("{:x}", colour), with the width of the input if it has one
LowerHex ==
    /\ op = "input"
    /\ op' = "lower_hex"
    /\ res' = IF arg.alpha THEN Alpha_LowerHex(arg.c, arg.width, arg.T)
              ELSE Rgb_LowerHex(arg.c, arg.width, arg.T)
    /\ UNCHANGED arg

\* format!("{:X}", colour), with the width of the input if it has one
UpperHex ==
    /\ op = "input"
    /\ op' = "upper_hex"
    /\ res' = IF arg.alpha THEN Alpha_UpperHex(arg.c, arg.width, arg.T)
              ELSE Rgb_UpperHex(arg.c, arg.width, arg.T)
    /\ UNCHANGED arg

\* Rgb::<S, u8>::from_str on the formatted text, as it is or after a '#'
FromStrOfHex ==
    /\ op \in {"lower_hex", "upper_hex"}
    /\ arg.T = "u8" /\ ~arg.alpha
    /\ op' = IF op = "lower_hex" THEN "lower_hex, from_str" ELSE "upper_hex, from_str"
    /\ \E hash \in BOOLEAN : res' = from_str(IF hash THEN <<"#">> \o res ELSE res)
    /\ UNCHANGED arg

NextHexFmt == LowerHex \/ UpperHex \/ FromStrOfHex

SpecHexFmt == InitHexFmt /\ [][NextHexFmt]_vars

\* The channels of the formatted colour in declaration order, alpha last.
FmtChannels ==
    IF arg.alpha
    THEN <<arg.c.color.red, arg.c.color.green, arg.c.color.blue, arg.c.alpha>>
    ELSE <<arg.c.red, arg.c.green, arg.c.blue>>

\* The number of hexadecimal digits v needs (v below 2^16).
DigitsNeeded(v) == IF v < 16 THEN 1 ELSE IF v < 256 THEN 2 ELSE IF v < 4096 THEN 3 ELSE 4

RECURSIVE HexStringValue(_, _)
\* The number a string of hexadecimal digits of one case denotes; -1 when a
\* character is not a digit of that case.
HexStringValue(str, table) ==
    IF str = <<>> THEN 0
    ELSE LET last == str[Len(str)]
             rest == HexStringValue(SubSeq(str, 1, Len(str) - 1), table)
         IN IF rest < 0 \/ ~(\E d \in 1..16 : table[d] = last) THEN -1
            ELSE rest * 16 + (CHOOSE d \in 1..16 : table[d] = last) - 1

\* The width every channel is padded to.
PadWidth == IF arg.width = NoWidth THEN 2 * size_of(arg.T) ELSE arg.width

\* The length of the text of channel k, and where it starts in the output.
FieldLen(k) ==
    IF DigitsNeeded(FmtChannels[k]) > PadWidth THEN DigitsNeeded(FmtChannels[k])
    ELSE PadWidth

RECURSIVE FieldStart(_)
FieldStart(k) == IF k = 1 THEN 1 ELSE FieldStart(k - 1) + FieldLen(k - 1)

\* C7: the LowerHex / UpperHex output of Rgb<S,T> and Alpha<Rgb<S,T>,T> is
\* the texts of red, green, blue and then alpha one after the other; each is
\* the channel in hexadecimal digits of the asked case, padded with zeros
\* on the left to w digits, w the formatter width if given and
\* 2 * size_of::<T>() otherwise, the same w for colour and alpha; a channel
\* that needs more than w digits is written in full.
C7_HexFormatLayout ==
    (op \in {"lower_hex", "upper_hex"}) =>
        LET table == IF op = "lower_hex" THEN LowerDigits ELSE UpperDigits
            n == Len(FmtChannels)
        IN /\ Len(res) = FieldStart(n) + FieldLen(n) - 1
           /\ \A k \in 1..n :
                  LET field == SubSeq(res, FieldStart(k), FieldStart(k) + FieldLen(k) - 1)
                  IN /\ HexStringValue(field, table) = FmtChannels[k]
                     /\ \A i \in 1..(FieldLen(k) - DigitsNeeded(FmtChannels[k])) :
                            field[i] = "0"

\* C7 witness: format!("{:03x}", Rgba::<_, u8>::new(1, 171, 255, 16)) gave
\* "0010ab0ff010".
C7_Witness ==
    /\ op = "lower_hex"
    /\ arg.alpha /\ arg.T = "u8" /\ arg.width = 3
    /\ arg.c = Alpha(Rgb(1, 171, 255), 16)
    /\ res = <<"0", "0", "1", "0", "a", "b", "0", "f", "f", "0", "1", "0">>

\* C24: formatting and parsing hex are inverse for 8-bit RGB: for every
\* Rgb<S, u8> value c, from_str of the default-width LowerHex output of c,
\* and of its default-width UpperHex output, with or without a leading '#',
\* is Ok(c).
C24_FormatThenParse ==
    (op \in {"lower_hex, from_str", "upper_hex, from_str"} /\ arg.width = NoWidth) =>
        /\ res.kind = "Ok"
        /\ Rgb(res.red, res.green, res.blue) = arg.c

\* {:X} of (1, 171, 255) is "01ABFF", which parses to (1, 171, 255).
C24_Witness ==
    /\ op = "upper_hex, from_str"
    /\ arg.width = NoWidth
    /\ arg.c = Rgb(1, 171, 255)
    /\ res.kind = "Ok" /\ res.red = 1 /\ res.green = 171 /\ res.blue = 255

(***************************************************************************)
(* Numbers.  A floating-point channel is a fixed-point number: the integer *)
(* n stands for n / Scale.  Sums and differences are exact; a product is   *)
(* rounded down to the grid.  NaN is not a value of the model.             *)
(***************************************************************************)
\* The number of grid steps in 1.0.
Scale == 100

\* from_f64(x) for a whole number x
from_f64(x) == x * Scale

FAdd(a, b) == a + b

FSub(a, b) == a - b

FMul(a, b) == (a * b) \div Scale

\* Float::max
FMax(a, b) == IF a >= b THEN a ELSE b

\* Component: T::zero() and T::max_intensity().  Floating-point types use
\* 0.0 and 1.0, unsigned integer types 0 and their largest value.
zero(T) == 0

max_intensity(T) == IF T = "f32" THEN Scale ELSE UIntMax(T)

\* T::one() of a float type
one(T) == Scale

\* crate::clamp
clamp(v, min, max) == IF v < min THEN min ELSE IF v > max THEN max ELSE v

\* crate::clamp_assign: the value left in *v
clamp_assign(v, min, max) == IF v < min THEN min ELSE IF v > max THEN max ELSE v

\* crate::clamp_min_assign: the value left in *v
clamp_min_assign(v, min) == IF v < min THEN min ELSE v

\* White points: WhitePoint::get_xyz(), the reference tristimulus values.
WhitePoints ==
    [D65 |-> [x |-> (95047 * Scale) \div 100000, y |-> Scale,
              z |-> (108883 * Scale) \div 100000],
     D50 |-> [x |-> (96422 * Scale) \div 100000, y |-> Scale,
              z |-> (82521 * Scale) \div 100000],
     E   |-> [x |-> Scale, y |-> Scale, z |-> Scale]]

get_xyz(Wp) == WhitePoints[Wp]

Xyz(x, y, z) == [x |-> x, y |-> y, z |-> z]

Lab(l, a, b) == [l |-> l, a |-> a, b |-> b]

Luv(l, u, v) == [l |-> l, u |-> u, v |-> v]

(***************************************************************************)
(* Channel bounds.  A colour type is a record ty: its space (sp), its      *)
(* component type (T) and its white point (Wp).                            *)
(***************************************************************************)
Rgb_min_red(ty) == zero(ty.T)

Rgb_max_red(ty) == max_intensity(ty.T)

Rgb_min_green(ty) == zero(ty.T)

Rgb_max_green(ty) == max_intensity(ty.T)

Rgb_min_blue(ty) == zero(ty.T)

Rgb_max_blue(ty) == max_intensity(ty.T)

Xyz_min_x(ty) == zero(ty.T)

Xyz_max_x(ty) == get_xyz(ty.Wp).x

Xyz_min_y(ty) == zero(ty.T)

Xyz_max_y(ty) == get_xyz(ty.Wp).y

Xyz_min_z(ty) == zero(ty.T)

Xyz_max_z(ty) == get_xyz(ty.Wp).z

Lab_min_l(ty) == zero(ty.T)

Lab_max_l(ty) == from_f64(100)

Lab_min_a(ty) == from_f64(-128)

Lab_max_a(ty) == from_f64(127)

Lab_min_b(ty) == from_f64(-128)

Lab_max_b(ty) == from_f64(127)

Luv_min_l(ty) == zero(ty.T)

Luv_max_l(ty) == from_f64(100)

Luv_min_u(ty) == from_f64(-84)

Luv_max_u(ty) == from_f64(176)

Luv_min_v(ty) == from_f64(-135)

\* A v maximum that repeats the u maximum.
Luv_max_v_as_u(ty) == from_f64(176)

Luv_max_v(ty) == from_f64(108)

Alpha_min_alpha(ty) == zero(ty.T)

Alpha_max_alpha(ty) == max_intensity(ty.T)

(***************************************************************************)
(* IsWithinBounds, Clamp and ClampAssign.                                  *)
(***************************************************************************)
Rgb_is_within_bounds(c, ty) ==
    /\ c.red >= Rgb_min_red(ty) /\ c.red <= Rgb_max_red(ty)
    /\ c.green >= Rgb_min_green(ty) /\ c.green <= Rgb_max_green(ty)
    /\ c.blue >= Rgb_min_blue(ty) /\ c.blue <= Rgb_max_blue(ty)

Rgb_clamp(c, ty) ==
    Rgb(clamp(c.red, Rgb_min_red(ty), Rgb_max_red(ty)),
        clamp(c.green, Rgb_min_green(ty), Rgb_max_green(ty)),
        clamp(c.blue, Rgb_min_blue(ty), Rgb_max_blue(ty)))

Rgb_clamp_assign(c, ty) ==
    LET c1 == [c EXCEPT !.red = clamp_assign(c.red, Rgb_min_red(ty), Rgb_max_red(ty))]
        c2 == [c1 EXCEPT !.green =
                   clamp_assign(c1.green, Rgb_min_green(ty), Rgb_max_green(ty))]
    IN [c2 EXCEPT !.blue = clamp_assign(c2.blue, Rgb_min_blue(ty), Rgb_max_blue(ty))]

Xyz_is_within_bounds(c, ty) ==
    /\ c.x >= Xyz_min_x(ty) /\ c.x <= Xyz_max_x(ty)
    /\ c.y >= Xyz_min_y(ty) /\ c.y <= Xyz_max_y(ty)
    /\ c.z >= Xyz_min_z(ty) /\ c.z <= Xyz_max_z(ty)

Xyz_clamp(c, ty) ==
    Xyz(clamp(c.x, Xyz_min_x(ty), Xyz_max_x(ty)),
        clamp(c.y, Xyz_min_y(ty), Xyz_max_y(ty)),
        clamp(c.z, Xyz_min_z(ty), Xyz_max_z(ty)))

Xyz_clamp_assign(c, ty) ==
    LET c1 == [c EXCEPT !.x = clamp_assign(c.x, Xyz_min_x(ty), Xyz_max_x(ty))]
        c2 == [c1 EXCEPT !.y = clamp_assign(c1.y, Xyz_min_y(ty), Xyz_max_y(ty))]
    IN [c2 EXCEPT !.z = clamp_assign(c2.z, Xyz_min_z(ty), Xyz_max_z(ty))]

Lab_is_within_bounds(c, ty) ==
    /\ c.l >= Lab_min_l(ty) /\ c.l <= Lab_max_l(ty)
    /\ c.a >= Lab_min_a(ty) /\ c.a <= Lab_max_a(ty)
    /\ c.b >= Lab_min_b(ty) /\ c.b <= Lab_max_b(ty)

\* A Lab clamp that does not clamp the a channel.
Lab_clamp_skips_a(c, ty) ==
    Lab(clamp(c.l, Lab_min_l(ty), Lab_max_l(ty)),
        c.a,
        clamp(c.b, Lab_min_b(ty), Lab_max_b(ty)))

Lab_clamp(c, ty) ==
    Lab(clamp(c.l, Lab_min_l(ty), Lab_max_l(ty)),
        clamp(c.a, Lab_min_a(ty), Lab_max_a(ty)),
        clamp(c.b, Lab_min_b(ty), Lab_max_b(ty)))

Lab_clamp_assign(c, ty) ==
    LET c1 == [c EXCEPT !.l = clamp_assign(c.l, Lab_min_l(ty), Lab_max_l(ty))]
        c2 == [c1 EXCEPT !.a = clamp_assign(c1.a, Lab_min_a(ty), Lab_max_a(ty))]
    IN [c2 EXCEPT !.b = clamp_assign(c2.b, Lab_min_b(ty), Lab_max_b(ty))]

Luv_is_within_bounds(c, ty) ==
    /\ c.l >= Luv_min_l(ty) /\ c.l <= Luv_max_l(ty)
    /\ c.u >= Luv_min_u(ty) /\ c.u <= Luv_max_u(ty)
    /\ c.v >= Luv_min_v(ty) /\ c.v <= Luv_max_v(ty)

Luv_clamp(c, ty) ==
    Luv(clamp(c.l, Luv_min_l(ty), Luv_max_l(ty)),
        clamp(c.u, Luv_min_u(ty), Luv_max_u(ty)),
        clamp(c.v, Luv_min_v(ty), Luv_max_v(ty)))

Luv_clamp_assign(c, ty) ==
    LET c1 == [c EXCEPT !.l = clamp_assign(c.l, Luv_min_l(ty), Luv_max_l(ty))]
        c2 == [c1 EXCEPT !.u = clamp_assign(c1.u, Luv_min_u(ty), Luv_max_u(ty))]
    IN [c2 EXCEPT !.v = clamp_assign(c2.v, Luv_min_v(ty), Luv_max_v(ty))]

\* The colour's own impl, selected by the colour type (trait dispatch).
Color_is_within_bounds(c, ty) ==
    CASE ty.sp = "Rgb" -> Rgb_is_within_bounds(c, ty)
      [] ty.sp = "Xyz" -> Xyz_is_within_bounds(c, ty)
      [] ty.sp = "Lab" -> Lab_is_within_bounds(c, ty)
      [] ty.sp = "Luv" -> Luv_is_within_bounds(c, ty)

Color_clamp(c, ty) ==
    CASE ty.sp = "Rgb" -> Rgb_clamp(c, ty)
      [] ty.sp = "Xyz" -> Xyz_clamp(c, ty)
      [] ty.sp = "Lab" -> Lab_clamp(c, ty)
      [] ty.sp = "Luv" -> Luv_clamp(c, ty)

Color_clamp_assign(c, ty) ==
    CASE ty.sp = "Rgb" -> Rgb_clamp_assign(c, ty)
      [] ty.sp = "Xyz" -> Xyz_clamp_assign(c, ty)
      [] ty.sp = "Lab" -> Lab_clamp_assign(c, ty)
      [] ty.sp = "Luv" -> Luv_clamp_assign(c, ty)

Alpha_is_within_bounds(c, ty) ==
    /\ Color_is_within_bounds(c.color, ty)
    /\ c.alpha >= Alpha_min_alpha(ty)
    /\ c.alpha <= Alpha_max_alpha(ty)

\* A clamp that clamps the colour and forgets the alpha.
Alpha_clamp_keeps_alpha(c, ty) == Alpha(Color_clamp(c.color, ty), c.alpha)

Alpha_clamp(c, ty) ==
    Alpha(Color_clamp(c.color, ty),
          clamp(c.alpha, Alpha_min_alpha(ty), Alpha_max_alpha(ty)))

Alpha_clamp_assign(c, ty) ==
    LET c1 == [c EXCEPT !.color = Color_clamp_assign(c.color, ty)]
    IN [c1 EXCEPT !.alpha =
            clamp_assign(c1.alpha, Alpha_min_alpha(ty), Alpha_max_alpha(ty))]

\* The impl of the value's type: Alpha's when the type has alpha.
is_within_bounds(c, ty) ==
    IF ty.alpha THEN Alpha_is_within_bounds(c, ty) ELSE Color_is_within_bounds(c, ty)

Clamp_clamp(c, ty) == IF ty.alpha THEN Alpha_clamp(c, ty) ELSE Color_clamp(c, ty)

ClampAssign_clamp_assign(c, ty) ==
    IF ty.alpha THEN Alpha_clamp_assign(c, ty) ELSE Color_clamp_assign(c, ty)

(***************************************************************************)
(* Arithmetic on colours (Add, Sub, Mul<T>, AddAssign): channel by channel.*)
(***************************************************************************)
Color_add(c, other) == [f \in DOMAIN c |-> FAdd(c[f], other[f])]

Color_sub(c, other) == [f \in DOMAIN c |-> FSub(c[f], other[f])]

Color_mul_scalar(c, k) == [f \in DOMAIN c |-> FMul(c[f], k)]

\* *self += other: the value left in *self
Color_add_assign(c, other) == [f \in DOMAIN c |-> FAdd(c[f], other[f])]

\* a / d and a * d.recip(): for d = 0 a floating-point division gives an
\* infinity or NaN.
Quot(a, d) ==
    IF d # 0 THEN (a * Scale) \div d
    ELSE IF a > 0 THEN "+inf" ELSE IF a < 0 THEN "-inf" ELSE "NaN"

\* The four operators of arithmetic.
Operators == {"+", "-", "*", "/"}

\* a + b, a - b, a * b and a / b of two floats
Arith(o, a, b) ==
    CASE o = "+" -> FAdd(a, b)
      [] o = "-" -> FSub(a, b)
      [] o = "*" -> FMul(a, b)
      [] o = "/" -> Quot(a, b)

\* Add, Sub, Mul and Div of a colour and a colour, and of a colour and a
\* scalar, and the value their Assign forms leave in *self: channel by channel.
Color_arith(o, c, other) == [f \in DOMAIN c |-> Arith(o, c[f], other[f])]

Color_arith_scalar(o, c, k) == [f \in DOMAIN c |-> Arith(o, c[f], k)]

\* An Alpha and scalar arithmetic that leaves alpha as it was.
Alpha_arith_scalar_color_only(o, c, k) == Alpha(Color_arith_scalar(o, c.color, k), c.alpha)

\* Add, Sub, Mul and Div of Alpha: with an Alpha, with a scalar, and the
\* Assign forms of both.
Alpha_arith(o, c, other) ==
    Alpha(Color_arith(o, c.color, other.color), Arith(o, c.alpha, other.alpha))

Alpha_arith_scalar(o, c, k) == Alpha(Color_arith_scalar(o, c.color, k), Arith(o, c.alpha, k))

Alpha_arith_assign(o, c, other) ==
    [c EXCEPT !.color = Color_arith(o, @, other.color), !.alpha = Arith(o, @, other.alpha)]

Alpha_arith_assign_scalar(o, c, k) ==
    [c EXCEPT !.color = Color_arith_scalar(o, @, k), !.alpha = Arith(o, @, k)]

(***************************************************************************)
(* Mix, MixAssign, Lighten and LightenAssign.                              *)
(***************************************************************************)
Rgb_mix(c, other, factor, ty) ==
    LET f == clamp(factor, zero(ty.T), one(ty.T))
    IN Color_add(c, Color_mul_scalar(Color_sub(other, c), f))

Rgb_mix_assign(c, other, factor, ty) ==
    LET f == clamp(factor, zero(ty.T), one(ty.T))
    IN Color_add_assign(c, Color_mul_scalar(Color_sub(other, c), f))

Rgb_lighten(c, factor, ty) ==
    LET difference_red == IF factor >= zero(ty.T) THEN FSub(Rgb_max_red(ty), c.red)
                          ELSE c.red
        delta_red == FMul(FMax(difference_red, zero(ty.T)), factor)
        difference_green == IF factor >= zero(ty.T)
                            THEN FSub(Rgb_max_green(ty), c.green) ELSE c.green
        delta_green == FMul(FMax(difference_green, zero(ty.T)), factor)
        difference_blue == IF factor >= zero(ty.T) THEN FSub(Rgb_max_blue(ty), c.blue)
                           ELSE c.blue
        delta_blue == FMul(FMax(difference_blue, zero(ty.T)), factor)
    IN Rgb(FMax(FAdd(c.red, delta_red), Rgb_min_red(ty)),
           FMax(FAdd(c.green, delta_green), Rgb_min_green(ty)),
           FMax(FAdd(c.blue, delta_blue), Rgb_min_blue(ty)))

Rgb_lighten_fixed(c, amount, ty) ==
    Rgb(FMax(FAdd(c.red, FMul(Rgb_max_red(ty), amount)), Rgb_min_red(ty)),
        FMax(FAdd(c.green, FMul(Rgb_max_green(ty), amount)), Rgb_min_green(ty)),
        FMax(FAdd(c.blue, FMul(Rgb_max_blue(ty), amount)), Rgb_min_blue(ty)))

Rgb_lighten_assign(c, factor, ty) ==
    LET difference_red == IF factor >= zero(ty.T) THEN FSub(Rgb_max_red(ty), c.red)
                          ELSE c.red
        red1 == FAdd(c.red, FMul(FMax(difference_red, zero(ty.T)), factor))
        difference_green == IF factor >= zero(ty.T)
                            THEN FSub(Rgb_max_green(ty), c.green) ELSE c.green
        green1 == FAdd(c.green, FMul(FMax(difference_green, zero(ty.T)), factor))
        difference_blue == IF factor >= zero(ty.T) THEN FSub(Rgb_max_blue(ty), c.blue)
                           ELSE c.blue
        blue1 == FAdd(c.blue, FMul(FMax(difference_blue, zero(ty.T)), factor))
    IN [red |-> clamp_min_assign(red1, Rgb_min_red(ty)),
        green |-> clamp_min_assign(green1, Rgb_min_green(ty)),
        blue |-> clamp_min_assign(blue1, Rgb_min_blue(ty))]

Rgb_lighten_fixed_assign(c, amount, ty) ==
    LET red1 == FAdd(c.red, FMul(Rgb_max_red(ty), amount))
        green1 == FAdd(c.green, FMul(Rgb_max_green(ty), amount))
        blue1 == FAdd(c.blue, FMul(Rgb_max_blue(ty), amount))
    IN [red |-> clamp_min_assign(red1, Rgb_min_red(ty)),
        green |-> clamp_min_assign(green1, Rgb_min_green(ty)),
        blue |-> clamp_min_assign(blue1, Rgb_min_blue(ty))]

\* An Xyz mix that interpolates with the factor as given.
Xyz_mix_unclamped(c, other, factor, ty) ==
    Color_add(c, Color_mul_scalar(Color_sub(other, c), factor))

Xyz_mix(c, other, factor, ty) ==
    LET f == clamp(factor, zero(ty.T), one(ty.T))
    IN Color_add(c, Color_mul_scalar(Color_sub(other, c), f))

Xyz_mix_assign(c, other, factor, ty) ==
    LET f == clamp(factor, zero(ty.T), one(ty.T))
    IN Color_add_assign(c, Color_mul_scalar(Color_sub(other, c), f))

Xyz_lighten(c, factor, ty) ==
    LET difference == IF factor >= zero(ty.T) THEN FSub(Xyz_max_y(ty), c.y) ELSE c.y
        delta == FMul(FMax(difference, zero(ty.T)), factor)
    IN [c EXCEPT !.y = FMax(FAdd(c.y, delta), Xyz_min_y(ty))]

Xyz_lighten_fixed(c, amount, ty) ==
    [c EXCEPT !.y = FMax(FAdd(c.y, FMul(Xyz_max_y(ty), amount)), Xyz_min_y(ty))]

Xyz_lighten_assign(c, factor, ty) ==
    LET difference == IF factor >= zero(ty.T) THEN FSub(Xyz_max_y(ty), c.y) ELSE c.y
        y1 == FAdd(c.y, FMul(FMax(difference, zero(ty.T)), factor))
    IN [c EXCEPT !.y = clamp_min_assign(y1, Xyz_min_y(ty))]

Xyz_lighten_fixed_assign(c, amount, ty) ==
    LET y1 == FAdd(c.y, FMul(Xyz_max_y(ty), amount))
    IN [c EXCEPT !.y = clamp_min_assign(y1, Xyz_min_y(ty))]

\* A mix that adds other scaled by the factor, the difference forgotten.
Lab_mix_adds_other(c, other, factor, ty) ==
    LET f == clamp(factor, zero(ty.T), one(ty.T))
    IN Color_add(c, Color_mul_scalar(other, f))

Lab_mix(c, other, factor, ty) ==
    LET f == clamp(factor, zero(ty.T), one(ty.T))
    IN Color_add(c, Color_mul_scalar(Color_sub(other, c), f))

Lab_mix_assign(c, other, factor, ty) ==
    LET f == clamp(factor, zero(ty.T), one(ty.T))
    IN Color_add_assign(c, Color_mul_scalar(Color_sub(other, c), f))

Lab_lighten(c, factor, ty) ==
    LET difference == IF factor >= zero(ty.T) THEN FSub(Lab_max_l(ty), c.l) ELSE c.l
        delta == FMul(FMax(difference, zero(ty.T)), factor)
    IN [c EXCEPT !.l = FMax(FAdd(c.l, delta), Lab_min_l(ty))]

Lab_lighten_fixed(c, amount, ty) ==
    [c EXCEPT !.l = FMax(FAdd(c.l, FMul(Lab_max_l(ty), amount)), Lab_min_l(ty))]

\* A lighten_assign without the final lower clamp.
Lab_lighten_assign_no_floor(c, factor, ty) ==
    LET difference == IF factor >= zero(ty.T) THEN FSub(Lab_max_l(ty), c.l) ELSE c.l
    IN [c EXCEPT !.l = FAdd(c.l, FMul(FMax(difference, zero(ty.T)), factor))]

Lab_lighten_assign(c, factor, ty) ==
    LET difference == IF factor >= zero(ty.T) THEN FSub(Lab_max_l(ty), c.l) ELSE c.l
        l1 == FAdd(c.l, FMul(FMax(difference, zero(ty.T)), factor))
    IN [c EXCEPT !.l = clamp_min_assign(l1, Lab_min_l(ty))]

Lab_lighten_fixed_assign(c, amount, ty) ==
    LET l1 == FAdd(c.l, FMul(Lab_max_l(ty), amount))
    IN [c EXCEPT !.l = clamp_min_assign(l1, Lab_min_l(ty))]

Luv_mix(c, other, factor, ty) ==
    LET f == clamp(factor, zero(ty.T), one(ty.T))
    IN Color_add(c, Color_mul_scalar(Color_sub(other, c), f))

Luv_mix_assign(c, other, factor, ty) ==
    LET f == clamp(factor, zero(ty.T), one(ty.T))
    IN Color_add_assign(c, Color_mul_scalar(Color_sub(other, c), f))

\* A Luv lighten that moves u by the same delta as l.
Luv_lighten_moves_u(c, factor, ty) ==
    LET difference == IF factor >= zero(ty.T) THEN FSub(Luv_max_l(ty), c.l) ELSE c.l
        delta == FMul(FMax(difference, zero(ty.T)), factor)
    IN [c EXCEPT !.l = FMax(FAdd(c.l, delta), Luv_min_l(ty)), !.u = FAdd(c.u, delta)]

Luv_lighten(c, factor, ty) ==
    LET difference == IF factor >= zero(ty.T) THEN FSub(Luv_max_l(ty), c.l) ELSE c.l
        delta == FMul(FMax(difference, zero(ty.T)), factor)
    IN [c EXCEPT !.l = FMax(FAdd(c.l, delta), Luv_min_l(ty))]

Luv_lighten_fixed(c, amount, ty) ==
    [c EXCEPT !.l = FMax(FAdd(c.l, FMul(Luv_max_l(ty), amount)), Luv_min_l(ty))]

Luv_lighten_assign(c, factor, ty) ==
    LET difference == IF factor >= zero(ty.T) THEN FSub(Luv_max_l(ty), c.l) ELSE c.l
        l1 == FAdd(c.l, FMul(FMax(difference, zero(ty.T)), factor))
    IN [c EXCEPT !.l = clamp_min_assign(l1, Luv_min_l(ty))]

Luv_lighten_fixed_assign(c, amount, ty) ==
    LET l1 == FAdd(c.l, FMul(Luv_max_l(ty), amount))
    IN [c EXCEPT !.l = clamp_min_assign(l1, Luv_min_l(ty))]

Color_mix(c, other, factor, ty) ==
    CASE ty.sp = "Rgb" -> Rgb_mix(c, other, factor, ty)
      [] ty.sp = "Xyz" -> Xyz_mix(c, other, factor, ty)
      [] ty.sp = "Lab" -> Lab_mix(c, other, factor, ty)
      [] ty.sp = "Luv" -> Luv_mix(c, other, factor, ty)

Color_mix_assign(c, other, factor, ty) ==
    CASE ty.sp = "Rgb" -> Rgb_mix_assign(c, other, factor, ty)
      [] ty.sp = "Xyz" -> Xyz_mix_assign(c, other, factor, ty)
      [] ty.sp = "Lab" -> Lab_mix_assign(c, other, factor, ty)
      [] ty.sp = "Luv" -> Luv_mix_assign(c, other, factor, ty)

Color_lighten(c, factor, ty) ==
    CASE ty.sp = "Rgb" -> Rgb_lighten(c, factor, ty)
      [] ty.sp = "Xyz" -> Xyz_lighten(c, factor, ty)
      [] ty.sp = "Lab" -> Lab_lighten(c, factor, ty)
      [] ty.sp = "Luv" -> Luv_lighten(c, factor, ty)

Color_lighten_fixed(c, amount, ty) ==
    CASE ty.sp = "Rgb" -> Rgb_lighten_fixed(c, amount, ty)
      [] ty.sp = "Xyz" -> Xyz_lighten_fixed(c, amount, ty)
      [] ty.sp = "Lab" -> Lab_lighten_fixed(c, amount, ty)
      [] ty.sp = "Luv" -> Luv_lighten_fixed(c, amount, ty)

Color_lighten_assign(c, factor, ty) ==
    CASE ty.sp = "Rgb" -> Rgb_lighten_assign(c, factor, ty)
      [] ty.sp = "Xyz" -> Xyz_lighten_assign(c, factor, ty)
      [] ty.sp = "Lab" -> Lab_lighten_assign(c, factor, ty)
      [] ty.sp = "Luv" -> Luv_lighten_assign(c, factor, ty)

Color_lighten_fixed_assign(c, amount, ty) ==
    CASE ty.sp = "Rgb" -> Rgb_lighten_fixed_assign(c, amount, ty)
      [] ty.sp = "Xyz" -> Xyz_lighten_fixed_assign(c, amount, ty)
      [] ty.sp = "Lab" -> Lab_lighten_fixed_assign(c, amount, ty)
      [] ty.sp = "Luv" -> Luv_lighten_fixed_assign(c, amount, ty)

\* A mix that blends alpha with the factor as given, unclamped.
Alpha_mix_alpha_unclamped(c, other, factor, ty) ==
    LET f == clamp(factor, zero(ty.T), one(ty.T))
    IN Alpha(Color_mix(c.color, other.color, f, ty),
             FAdd(c.alpha, FMul(factor, FSub(other.alpha, c.alpha))))

Alpha_mix(c, other, factor, ty) ==
    LET f == clamp(factor, zero(ty.T), one(ty.T))
    IN Alpha(Color_mix(c.color, other.color, f, ty),
             FAdd(c.alpha, FMul(f, FSub(other.alpha, c.alpha))))

Alpha_mix_assign(c, other, factor, ty) ==
    LET f == clamp(factor, zero(ty.T), one(ty.T))
        c1 == [c EXCEPT !.color = Color_mix_assign(c.color, other.color, f, ty)]
    IN [c1 EXCEPT !.alpha = FAdd(c1.alpha, FMul(f, FSub(other.alpha, c1.alpha)))]

\* A lighten that moves alpha towards its maximum by the same factor.
Alpha_lighten_alpha_too(c, factor, ty) ==
    LET difference == IF factor >= zero(ty.T) THEN FSub(Alpha_max_alpha(ty), c.alpha)
                      ELSE c.alpha
        delta == FMul(FMax(difference, zero(ty.T)), factor)
    IN Alpha(Color_lighten(c.color, factor, ty),
             FMax(FAdd(c.alpha, delta), Alpha_min_alpha(ty)))

Alpha_lighten(c, factor, ty) == Alpha(Color_lighten(c.color, factor, ty), c.alpha)

Alpha_lighten_fixed(c, amount, ty) ==
    Alpha(Color_lighten_fixed(c.color, amount, ty), c.alpha)

Alpha_lighten_assign(c, factor, ty) ==
    [c EXCEPT !.color = Color_lighten_assign(c.color, factor, ty)]

Alpha_lighten_fixed_assign(c, amount, ty) ==
    [c EXCEPT !.color = Color_lighten_fixed_assign(c.color, amount, ty)]

(***************************************************************************)
(* GetHue.  An angle is kept as the atan2 application that produces it.    *)
(***************************************************************************)
None == [some |-> FALSE]

Some(v) == [some |-> TRUE, value |-> v]

\* y.atan2(x)
atan2(y, x) == [atan2_y |-> y, atan2_x |-> x]

\* LabHue / LuvHue / RgbHue ::from_radians
from_radians(kind, r) == [hue |-> kind, radians |-> r]

\* A get_hue that takes one vanishing channel for an achromatic colour.
Lab_get_hue_either_zero(c, ty) ==
    IF c.a = zero(ty.T) \/ c.b = zero(ty.T) THEN None
    ELSE Some(from_radians("LabHue", atan2(c.b, c.a)))

Lab_get_hue(c, ty) ==
    IF c.a = zero(ty.T) /\ c.b = zero(ty.T) THEN None
    ELSE Some(from_radians("LabHue", atan2(c.b, c.a)))

Luv_get_hue(c, ty) ==
    IF c.u = zero(ty.T) /\ c.v = zero(ty.T) THEN None
    ELSE Some(from_radians("LuvHue", atan2(c.v, c.u)))

Rgb_get_hue(c, ty) ==
    LET sqrt_3 == (173205 * Scale) \div 100000
    IN IF c.red = c.green /\ c.red = c.blue THEN None
       ELSE Some(from_radians("RgbHue",
                    atan2(FMul(sqrt_3, FSub(c.green, c.blue)),
                          FSub(FSub(FMul(c.red, from_f64(2)), c.green), c.blue))))

Color_get_hue(c, ty) ==
    CASE ty.sp = "Rgb" -> Rgb_get_hue(c, ty)
      [] ty.sp = "Lab" -> Lab_get_hue(c, ty)
      [] ty.sp = "Luv" -> Luv_get_hue(c, ty)

Alpha_get_hue(c, ty) == Color_get_hue(c.color, ty)

GetHue_get_hue(c, ty) == IF ty.alpha THEN Alpha_get_hue(c, ty) ELSE Color_get_hue(c, ty)

\* Saturate and SaturateAssign of the wrapped colour C.  No colour of this
\* model has a saturation channel: C's result is kept as the application
\* itself, which says which method ran, on what, with which argument.
Color_saturate(c, factor) == [method |-> "saturate", self |-> c, by |-> factor]

Color_saturate_fixed(c, amount) == [method |-> "saturate_fixed", self |-> c, by |-> amount]

Color_saturate_assign(c, factor) == [method |-> "saturate_assign", self |-> c, by |-> factor]

Color_saturate_fixed_assign(c, amount) ==
    [method |-> "saturate_fixed_assign", self |-> c, by |-> amount]

Alpha_saturate(c, factor) == Alpha(Color_saturate(c.color, factor), c.alpha)

Alpha_saturate_fixed(c, amount) == Alpha(Color_saturate_fixed(c.color, amount), c.alpha)

Alpha_saturate_assign(c, factor) ==
    [c EXCEPT !.color = Color_saturate_assign(c.color, factor)]

Alpha_saturate_fixed_assign(c, amount) ==
    [c EXCEPT !.color = Color_saturate_fixed_assign(c.color, amount)]

Mix_mix(c, other, factor, ty) ==
    IF ty.alpha THEN Alpha_mix(c, other, factor, ty) ELSE Color_mix(c, other, factor, ty)

MixAssign_mix_assign(c, other, factor, ty) ==
    IF ty.alpha THEN Alpha_mix_assign(c, other, factor, ty)
    ELSE Color_mix_assign(c, other, factor, ty)

Lighten_lighten(c, factor, ty) ==
    IF ty.alpha THEN Alpha_lighten(c, factor, ty) ELSE Color_lighten(c, factor, ty)

Lighten_lighten_fixed(c, amount, ty) ==
    IF ty.alpha THEN Alpha_lighten_fixed(c, amount, ty)
    ELSE Color_lighten_fixed(c, amount, ty)

LightenAssign_lighten_assign(c, factor, ty) ==
    IF ty.alpha THEN Alpha_lighten_assign(c, factor, ty)
    ELSE Color_lighten_assign(c, factor, ty)

LightenAssign_lighten_fixed_assign(c, amount, ty) ==
    IF ty.alpha THEN Alpha_lighten_fixed_assign(c, amount, ty)
    ELSE Color_lighten_fixed_assign(c, amount, ty)

(***************************************************************************)
(* The colour specification: a colour of one of the types below, with or   *)
(* without alpha, and the arguments of one operation on it.                *)
(***************************************************************************)
\* How far past an end of its interval a sampled channel lies, in grid steps.
Excess == 1

\* Blend factors and amounts run from -FactorSteps/2 to FactorSteps/2.
FactorSteps == 3

FloatSpaces ==
    {[sp |-> "Rgb", T |-> "f32", Wp |-> "D65"], [sp |-> "Lab", T |-> "f32", Wp |-> "D65"],
     [sp |-> "Luv", T |-> "f32", Wp |-> "D65"]}
    \cup {[sp |-> "Xyz", T |-> "f32", Wp |-> wp] : wp \in DOMAIN WhitePoints}

WithAlpha(spaces) ==
    {[sp |-> t.sp, T |-> t.T, Wp |-> t.Wp, alpha |-> a] : t \in spaces, a \in BOOLEAN}

FloatTypes == WithAlpha(FloatSpaces)

IntTypes == WithAlpha({[sp |-> "Rgb", T |-> "u8", Wp |-> "D65"]})

\* The channels of a colour, in the order of its constructor.
Channels(c, ty) ==
    CASE ty.sp = "Rgb" -> <<c.red, c.green, c.blue>>
      [] ty.sp = "Xyz" -> <<c.x, c.y, c.z>>
      [] ty.sp = "Lab" -> <<c.l, c.a, c.b>>
      [] ty.sp = "Luv" -> <<c.l, c.u, c.v>>

\* The colour of a type with the given channels.
new(ty, v) ==
    CASE ty.sp = "Rgb" -> Rgb(v[1], v[2], v[3])
      [] ty.sp = "Xyz" -> Xyz(v[1], v[2], v[3])
      [] ty.sp = "Lab" -> Lab(v[1], v[2], v[3])
      [] ty.sp = "Luv" -> Luv(v[1], v[2], v[3])

\* Alpha<C, A>::new(c1, c2, c3, alpha) of the four colour types
Alpha_new(ty, v) == Alpha(new(ty, <<v[1], v[2], v[3]>>), v[4])

\* Self::new of a colour type, bare or with alpha
Self_new(ty, v) == IF ty.alpha THEN Alpha_new(ty, v) ELSE new(ty, v)

\* An into_components that puts alpha first.
into_components_alpha_first(c, ty) ==
    IF ty.alpha THEN <<c.alpha>> \o Channels(c.color, ty) ELSE Channels(c, ty)

\* into_components of the four colour types and of their Alpha forms
into_components(c, ty) ==
    CASE ty.sp = "Rgb" /\ ~ty.alpha -> <<c.red, c.green, c.blue>>
      [] ty.sp = "Rgb" /\ ty.alpha -> <<c.color.red, c.color.green, c.color.blue, c.alpha>>
      [] ty.sp = "Xyz" /\ ~ty.alpha -> <<c.x, c.y, c.z>>
      [] ty.sp = "Xyz" /\ ty.alpha -> <<c.color.x, c.color.y, c.color.z, c.alpha>>
      [] ty.sp = "Lab" /\ ~ty.alpha -> <<c.l, c.a, c.b>>
      [] ty.sp = "Lab" /\ ty.alpha -> <<c.color.l, c.color.a, c.color.b, c.alpha>>
      [] ty.sp = "Luv" /\ ~ty.alpha -> <<c.l, c.u, c.v>>
      [] ty.sp = "Luv" /\ ty.alpha -> <<c.color.l, c.color.u, c.color.v, c.alpha>>

\* from_components of the four colour types and of their Alpha forms
from_components(v, ty) == Self_new(ty, v)

\* Default::default() of the four colour types
Color_default(ty) == new(ty, <<zero(ty.T), zero(ty.T), zero(ty.T)>>)

\* impl Default for Alpha<C, T>
Alpha_default(ty) == Alpha(Color_default(ty), max_intensity(ty.T))

\* A call of the caller's closure f: FnMut.  The calls made so far are a
\* sequence of argument tuples; the value a call returns is known by the
\* number of the call and its arguments.
Returned(calls) == [f |-> Len(calls), of |-> calls[Len(calls)]]

\* f on p1, then on p2, then on p3, and the colour of the returned values.
Built(ty, calls, p1, p2, p3) ==
    LET c1 == Append(calls, p1)
        c2 == Append(c1, p2)
        c3 == Append(c2, p3)
    IN [value |-> new(ty, <<Returned(c1), Returned(c2), Returned(c3)>>), calls |-> c3]

\* component_wise of the four colour types
component_wise(c, other, ty, calls) ==
    CASE ty.sp = "Rgb" -> Built(ty, calls, <<c.red, other.red>>, <<c.green, other.green>>,
                                <<c.blue, other.blue>>)
      [] ty.sp = "Xyz" -> Built(ty, calls, <<c.x, other.x>>, <<c.y, other.y>>, <<c.z, other.z>>)
      [] ty.sp = "Lab" -> Built(ty, calls, <<c.l, other.l>>, <<c.a, other.a>>, <<c.b, other.b>>)
      [] ty.sp = "Luv" -> Built(ty, calls, <<c.l, other.l>>, <<c.u, other.u>>, <<c.v, other.v>>)

\* component_wise_self of the four colour types
component_wise_self(c, ty, calls) ==
    CASE ty.sp = "Rgb" -> Built(ty, calls, <<c.red>>, <<c.green>>, <<c.blue>>)
      [] ty.sp = "Xyz" -> Built(ty, calls, <<c.x>>, <<c.y>>, <<c.z>>)
      [] ty.sp = "Lab" -> Built(ty, calls, <<c.l>>, <<c.a>>, <<c.b>>)
      [] ty.sp = "Luv" -> Built(ty, calls, <<c.l>>, <<c.u>>, <<c.v>>)

\* An Alpha component_wise that calls f on the alphas first.
Alpha_component_wise_alpha_first(c, other, ty, calls) ==
    LET alpha == Append(calls, <<c.alpha, other.alpha>>)
        color == component_wise(c.color, other.color, ty, alpha)
    IN [value |-> Alpha(color.value, Returned(alpha)), calls |-> color.calls]

\* impl ComponentWise for Alpha
Alpha_component_wise(c, other, ty, calls) ==
    LET color == component_wise(c.color, other.color, ty, calls)
        alpha == Append(color.calls, <<c.alpha, other.alpha>>)
    IN [value |-> Alpha(color.value, Returned(alpha)), calls |-> alpha]

Alpha_component_wise_self(c, ty, calls) ==
    LET color == component_wise_self(c.color, ty, calls)
        alpha == Append(color.calls, <<c.alpha>>)
    IN [value |-> Alpha(color.value, Returned(alpha)), calls |-> alpha]

\* min_*() and max_*() of the three channels
Mins(ty) ==
    CASE ty.sp = "Rgb" -> <<Rgb_min_red(ty), Rgb_min_green(ty), Rgb_min_blue(ty)>>
      [] ty.sp = "Xyz" -> <<Xyz_min_x(ty), Xyz_min_y(ty), Xyz_min_z(ty)>>
      [] ty.sp = "Lab" -> <<Lab_min_l(ty), Lab_min_a(ty), Lab_min_b(ty)>>
      [] ty.sp = "Luv" -> <<Luv_min_l(ty), Luv_min_u(ty), Luv_min_v(ty)>>

Maxs(ty) ==
    CASE ty.sp = "Rgb" -> <<Rgb_max_red(ty), Rgb_max_green(ty), Rgb_max_blue(ty)>>
      [] ty.sp = "Xyz" -> <<Xyz_max_x(ty), Xyz_max_y(ty), Xyz_max_z(ty)>>
      [] ty.sp = "Lab" -> <<Lab_max_l(ty), Lab_max_a(ty), Lab_max_b(ty)>>
      [] ty.sp = "Luv" -> <<Luv_max_l(ty), Luv_max_u(ty), Luv_max_v(ty)>>

\* Values around an interval: both ends, the middle, and just outside each
\* end where the component type has such values.
FineSamples(lo, hi, T) ==
    {lo, (lo + hi) \div 2, hi}
    \cup (IF T = "f32" THEN {lo - Excess, hi + Excess} ELSE {lo + Excess, hi - Excess})

CoarseSamples(lo, hi) == {lo - Excess, lo, (lo + hi) \div 2, hi, hi + Excess}

EndSamples(lo, hi) == {lo - Excess, hi}

FineColors(ty) ==
    {new(ty, <<v1, v2, v3>>) :
        v1 \in FineSamples(Mins(ty)[1], Maxs(ty)[1], ty.T),
        v2 \in FineSamples(Mins(ty)[2], Maxs(ty)[2], ty.T),
        v3 \in FineSamples(Mins(ty)[3], Maxs(ty)[3], ty.T)}

CoarseColors(ty) ==
    {new(ty, <<v1, v2, v3>>) :
        v1 \in CoarseSamples(Mins(ty)[1], Maxs(ty)[1]),
        v2 \in CoarseSamples(Mins(ty)[2], Maxs(ty)[2]),
        v3 \in CoarseSamples(Mins(ty)[3], Maxs(ty)[3])}

EndColors(ty) ==
    {new(ty, <<v1, v2, v3>>) :
        v1 \in EndSamples(Mins(ty)[1], Maxs(ty)[1]),
        v2 \in EndSamples(Mins(ty)[2], Maxs(ty)[2]),
        v3 \in EndSamples(Mins(ty)[3], Maxs(ty)[3])}

\* Values of a type: the colours, each with every alpha if the type has alpha.
Values(ty, colors, alphas) ==
    IF ty.alpha THEN {Alpha(c, a) : c \in colors, a \in alphas} ELSE colors

FactorSamples == {k * (Scale \div 2) : k \in (0 - FactorSteps)..FactorSteps}

\* The inputs of the operations without arguments on a value of type ty.
UnaryInputs(ty) ==
    {[kind |-> "unary", ty |-> ty, c |-> c, other |-> c, factor |-> 0] :
        c \in Values(ty, FineColors(ty),
                     FineSamples(Alpha_min_alpha(ty), Alpha_max_alpha(ty), ty.T))}

\* The inputs of lighten and lighten_fixed (and their _assign forms).
LightenInputs(ty) ==
    {[kind |-> "lighten", ty |-> ty, c |-> c, other |-> c, factor |-> f] :
        c \in Values(ty, CoarseColors(ty),
                     EndSamples(Alpha_min_alpha(ty), Alpha_max_alpha(ty))),
        f \in FactorSamples}

\* The inputs of mix and mix_assign.
MixInputs(ty) ==
    {[kind |-> "mix", ty |-> ty, c |-> c, other |-> o, factor |-> f] :
        c \in Values(ty, EndColors(ty),
                     EndSamples(Alpha_min_alpha(ty), Alpha_max_alpha(ty))),
        o \in Values(ty, EndColors(ty),
                     EndSamples(Alpha_min_alpha(ty), Alpha_max_alpha(ty))),
        f \in FactorSamples}

\* Channel values at and next to zero, and 1.0.
HueSamples == {0 - Excess, 0, Excess, Scale}

\* The types with a hue.
HueTypes == {ty \in FloatTypes : ty.sp \in {"Rgb", "Lab", "Luv"}}

\* The inputs of get_hue.
HueInputs(ty) ==
    {[kind |-> "hue", ty |-> ty, c |-> c, other |-> c, factor |-> 0] :
        c \in Values(ty, {new(ty, <<v1, v2, v3>>) :
                            v1 \in HueSamples, v2 \in HueSamples, v3 \in HueSamples},
                     EndSamples(Alpha_min_alpha(ty), Alpha_max_alpha(ty)))}

\* Mix and Lighten are implemented for floating-point components only.
ColorInputs(ty) ==
    IF ty \in FloatTypes
    THEN UnaryInputs(ty) \cup LightenInputs(ty) \cup MixInputs(ty)
         \cup (IF ty \in HueTypes THEN HueInputs(ty) ELSE {})
    ELSE UnaryInputs(ty)

\* res holds the value the operations so far have produced.
InitColor ==
    /\ op = <<>>
    /\ \E ty \in FloatTypes \cup IntTypes : arg \in ColorInputs(ty)
    /\ res = arg.c

\* value.is_within_bounds(), on the input or on a clamped value
IsWithinBounds ==
    /\ arg.kind = "unary"
    /\ op \in {<<>>, <<"clamp">>, <<"clamp_assign">>}
    /\ op' = Append(op, "is_within_bounds")
    /\ res' = is_within_bounds(res, arg.ty)
    /\ UNCHANGED arg

\* value.clamp()
Clamp ==
    /\ arg.kind = "unary" /\ op = <<>>
    /\ op' = <<"clamp">>
    /\ res' = Clamp_clamp(res, arg.ty)
    /\ UNCHANGED arg

\* value.clamp_assign(): res is the receiver afterwards
ClampAssign ==
    /\ arg.kind = "unary" /\ op = <<>>
    /\ op' = <<"clamp_assign">>
    /\ res' = ClampAssign_clamp_assign(res, arg.ty)
    /\ UNCHANGED arg

\* value.mix(other, factor)
Mix ==
    /\ arg.kind = "mix" /\ op = <<>>
    /\ op' = <<"mix">>
    /\ res' = Mix_mix(res, arg.other, arg.factor, arg.ty)
    /\ UNCHANGED arg

\* value.mix_assign(other, factor)
MixAssign ==
    /\ arg.kind = "mix" /\ op = <<>>
    /\ op' = <<"mix_assign">>
    /\ res' = MixAssign_mix_assign(res, arg.other, arg.factor, arg.ty)
    /\ UNCHANGED arg

\* value.lighten(factor)
Lighten ==
    /\ arg.kind = "lighten" /\ op = <<>>
    /\ op' = <<"lighten">>
    /\ res' = Lighten_lighten(res, arg.factor, arg.ty)
    /\ UNCHANGED arg

\* value.lighten_fixed(amount)
LightenFixed ==
    /\ arg.kind = "lighten" /\ op = <<>>
    /\ op' = <<"lighten_fixed">>
    /\ res' = Lighten_lighten_fixed(res, arg.factor, arg.ty)
    /\ UNCHANGED arg

\* value.lighten_assign(factor)
LightenAssign ==
    /\ arg.kind = "lighten" /\ op = <<>>
    /\ op' = <<"lighten_assign">>
    /\ res' = LightenAssign_lighten_assign(res, arg.factor, arg.ty)
    /\ UNCHANGED arg

\* value.lighten_fixed_assign(amount)
LightenFixedAssign ==
    /\ arg.kind = "lighten" /\ op = <<>>
    /\ op' = <<"lighten_fixed_assign">>
    /\ res' = LightenAssign_lighten_fixed_assign(res, arg.factor, arg.ty)
    /\ UNCHANGED arg

\* value.saturate(factor), for a value with alpha
Saturate ==
    /\ arg.kind = "lighten" /\ arg.ty.alpha /\ op = <<>>
    /\ op' = <<"saturate">>
    /\ res' = Alpha_saturate(res, arg.factor)
    /\ UNCHANGED arg

\* value.saturate_fixed(amount), for a value with alpha
SaturateFixed ==
    /\ arg.kind = "lighten" /\ arg.ty.alpha /\ op = <<>>
    /\ op' = <<"saturate_fixed">>
    /\ res' = Alpha_saturate_fixed(res, arg.factor)
    /\ UNCHANGED arg

\* value.saturate_assign(factor), for a value with alpha
SaturateAssign ==
    /\ arg.kind = "lighten" /\ arg.ty.alpha /\ op = <<>>
    /\ op' = <<"saturate_assign">>
    /\ res' = Alpha_saturate_assign(res, arg.factor)
    /\ UNCHANGED arg

\* value.saturate_fixed_assign(amount), for a value with alpha
SaturateFixedAssign ==
    /\ arg.kind = "lighten" /\ arg.ty.alpha /\ op = <<>>
    /\ op' = <<"saturate_fixed_assign">>
    /\ res' = Alpha_saturate_fixed_assign(res, arg.factor)
    /\ UNCHANGED arg

\* value.get_hue()
GetHue ==
    /\ arg.kind = "hue" /\ op = <<>>
    /\ op' = <<"get_hue">>
    /\ res' = GetHue_get_hue(res, arg.ty)
    /\ UNCHANGED arg

\* value.into_components(), on the input or on a value that new built
IntoComponents ==
    /\ arg.kind = "unary"
    /\ op \in {<<>>, <<"into_components", "new">>}
    /\ op' = Append(op, "into_components")
    /\ res' = into_components(res, arg.ty)
    /\ UNCHANGED arg

\* Self::new(c1, c2, c3[, alpha]) on the components of the input
New ==
    /\ arg.kind = "unary"
    /\ op = <<"into_components">>
    /\ op' = Append(op, "new")
    /\ res' = Self_new(arg.ty, res)
    /\ UNCHANGED arg

\* Self::from_components(components) on the components of the input
FromComponents ==
    /\ arg.kind = "unary"
    /\ op = <<"into_components">>
    /\ op' = Append(op, "from_components")
    /\ res' = from_components(res, arg.ty)
    /\ UNCHANGED arg

\* Alpha::from(color) on a colour without alpha
AlphaFromColor ==
    /\ arg.kind = "unary" /\ ~arg.ty.alpha
    /\ op = <<>>
    /\ op' = <<"Alpha::from">>
    /\ res' = AlphaFrom(res, max_intensity(arg.ty.T))
    /\ UNCHANGED arg

\* Alpha::<C, T>::default(), whatever value was there
AlphaDefault ==
    /\ arg.kind = "unary" /\ arg.ty.alpha
    /\ op = <<>>
    /\ op' = <<"Alpha::default">>
    /\ res' = Alpha_default(arg.ty)
    /\ UNCHANGED arg

\* Rgb<S, u8>::into_u32::<O>() for a channel order O
RgbIntoU32 ==
    /\ arg.kind = "unary" /\ ~arg.ty.alpha /\ arg.ty.sp = "Rgb" /\ arg.ty.T = "u8"
    /\ op = <<>>
    /\ \E O \in ChannelOrders :
          /\ op' = <<"into_u32", O>>
          /\ res' = Rgb_into_u32(O, res)
    /\ UNCHANGED arg

\* self.component_wise(&other, f) with a closure that has not been called
ComponentWise ==
    /\ arg.kind = "mix" /\ arg.factor = 0
    /\ op = <<>>
    /\ op' = <<"component_wise">>
    /\ res' = IF arg.ty.alpha THEN Alpha_component_wise(res, arg.other, arg.ty, <<>>)
              ELSE component_wise(res, arg.other, arg.ty, <<>>)
    /\ UNCHANGED arg

\* self.component_wise_self(f) with a closure that has not been called
ComponentWiseSelf ==
    /\ arg.kind = "unary"
    /\ op = <<>>
    /\ op' = <<"component_wise_self">>
    /\ res' = IF arg.ty.alpha THEN Alpha_component_wise_self(res, arg.ty, <<>>)
              ELSE component_wise_self(res, arg.ty, <<>>)
    /\ UNCHANGED arg

\* self + other, self - other, self * other, self / other of two Alpha
AlphaArith ==
    /\ arg.kind = "mix" /\ arg.ty.alpha /\ arg.factor = 0 /\ op = <<>>
    /\ \E o \in Operators :
          /\ op' = <<"arithmetic", o, "Alpha">>
          /\ res' = Alpha_arith(o, res, arg.other)
    /\ UNCHANGED arg

\* self + c, self - c, self * c, self / c of an Alpha and a scalar
AlphaArithScalar ==
    /\ arg.kind = "mix" /\ arg.ty.alpha /\ op = <<>>
    /\ \E o \in Operators :
          /\ op' = <<"arithmetic", o, "scalar">>
          /\ res' = Alpha_arith_scalar(o, res, arg.factor)
    /\ UNCHANGED arg

\* self += other, self -= other, self *= other, self /= other of two Alpha
AlphaArithAssign ==
    /\ arg.kind = "mix" /\ arg.ty.alpha /\ arg.factor = 0 /\ op = <<>>
    /\ \E o \in Operators :
          /\ op' = <<"arithmetic", o, "assign Alpha">>
          /\ res' = Alpha_arith_assign(o, res, arg.other)
    /\ UNCHANGED arg

\* self += c, self -= c, self *= c, self /= c of an Alpha and a scalar
AlphaArithAssignScalar ==
    /\ arg.kind = "mix" /\ arg.ty.alpha /\ op = <<>>
    /\ \E o \in Operators :
          /\ op' = <<"arithmetic", o, "assign scalar">>
          /\ res' = Alpha_arith_assign_scalar(o, res, arg.factor)
    /\ UNCHANGED arg

NextColor ==
    \/ IsWithinBounds
    \/ AlphaArith
    \/ AlphaArithScalar
    \/ AlphaArithAssign
    \/ AlphaArithAssignScalar
    \/ ComponentWise
    \/ ComponentWiseSelf
    \/ AlphaFromColor
    \/ AlphaDefault
    \/ RgbIntoU32
    \/ IntoComponents
    \/ New
    \/ FromComponents
    \/ Clamp
    \/ ClampAssign
    \/ Mix
    \/ MixAssign
    \/ Lighten
    \/ LightenFixed
    \/ LightenAssign
    \/ LightenFixedAssign
    \/ Saturate
    \/ SaturateFixed
    \/ SaturateAssign
    \/ SaturateFixedAssign
    \/ GetHue

SpecColor == InitColor /\ [][NextColor]_vars

(***************************************************************************)
(* Clamping and bounds: what is claimed of the operations above.           *)
(***************************************************************************)
\* The interval of each channel as documented, lowest and highest value:
\* Rgb [0, max intensity]; Xyz [0, white point]; Lab l [0, 100], a and b
\* [-128, 127]; Luv l [0, 100], u [-84, 176], v [-135, 108].
Intervals(ty) ==
    CASE ty.sp = "Rgb" ->
            LET top == IF ty.T = "f32" THEN Scale ELSE U8Max
            IN <<<<0, top>>, <<0, top>>, <<0, top>>>>
      [] ty.sp = "Xyz" ->
            <<<<0, WhitePoints[ty.Wp].x>>, <<0, WhitePoints[ty.Wp].y>>,
              <<0, WhitePoints[ty.Wp].z>>>>
      [] ty.sp = "Lab" ->
            <<<<0, 100 * Scale>>, <<-128 * Scale, 127 * Scale>>,
              <<-128 * Scale, 127 * Scale>>>>
      [] ty.sp = "Luv" ->
            <<<<0, 100 * Scale>>, <<-84 * Scale, 176 * Scale>>,
              <<-135 * Scale, 108 * Scale>>>>

\* The interval of the alpha channel: [0, max intensity].
AlphaInterval(ty) == <<0, IF ty.T = "f32" THEN Scale ELSE U8Max>>

\* The channels of a value, alpha last if it has one, and their intervals.
AllChannels(v, ty) ==
    IF ty.alpha THEN Append(Channels(v.color, ty), v.alpha) ELSE Channels(v, ty)

AllIntervals(ty) ==
    IF ty.alpha THEN Append(Intervals(ty), AlphaInterval(ty)) ELSE Intervals(ty)

InInterval(x, iv) == iv[1] <= x /\ x <= iv[2]

\* The nearest value of the interval.
Nearest(x, iv) == IF x < iv[1] THEN iv[1] ELSE IF x > iv[2] THEN iv[2] ELSE x

InBounds(v, ty) ==
    \A k \in DOMAIN AllChannels(v, ty) : InInterval(AllChannels(v, ty)[k], AllIntervals(ty)[k])

C9_WithinBoundsIffInIntervals ==
    op = <<"is_within_bounds">> => res = InBounds(arg.c, arg.ty)

\* A Luv colour with every channel on the upper end of its interval is
\* within bounds.
C9_Witness ==
    /\ op = <<"is_within_bounds">>
    /\ arg.ty = [sp |-> "Luv", T |-> "f32", Wp |-> "D65", alpha |-> FALSE]
    /\ arg.c = Luv(100 * Scale, 176 * Scale, 108 * Scale)
    /\ res = TRUE

\* C10: clamp changes each channel by itself (unchanged within its bounds,
\* the minimum if below, the maximum if above); clamp_assign leaves what
\* clamp returns; mix_assign, lighten_assign and lighten_fixed_assign leave
\* what mix, lighten and lighten_fixed return for the same arguments.
C10_ClampPerChannelAndAssignForms ==
    /\ op = <<"clamp">> =>
          /\ DOMAIN AllChannels(res, arg.ty) = DOMAIN AllChannels(arg.c, arg.ty)
          /\ \A k \in DOMAIN AllChannels(arg.c, arg.ty) :
                AllChannels(res, arg.ty)[k]
                    = Nearest(AllChannels(arg.c, arg.ty)[k], AllIntervals(arg.ty)[k])
    /\ op = <<"clamp_assign">> => res = Clamp_clamp(arg.c, arg.ty)
    /\ op = <<"mix_assign">> => res = Mix_mix(arg.c, arg.other, arg.factor, arg.ty)
    /\ op = <<"lighten_assign">> => res = Lighten_lighten(arg.c, arg.factor, arg.ty)
    /\ op = <<"lighten_fixed_assign">> =>
          res = Lighten_lighten_fixed(arg.c, arg.factor, arg.ty)

\* lighten_assign on a Lab colour whose l is below the minimum, darkening:
\* the receiver ends at the minimum, as lighten returns.
C10_Witness ==
    /\ op = <<"lighten_assign">>
    /\ arg.ty = [sp |-> "Lab", T |-> "f32", Wp |-> "D65", alpha |-> FALSE]
    /\ arg.c = Lab(0 - Excess, 127 * Scale + Excess, -128 * Scale - Excess)
    /\ arg.factor = 0 - (Scale \div 2)
    /\ res = Lab(0, 127 * Scale + Excess, -128 * Scale - Excess)

(***************************************************************************)
(* Alpha: bounds, clamping and blending of the alpha channel.              *)
(***************************************************************************)
\* C11: for Alpha<C, T>, is_within_bounds is true exactly when the wrapped
\* colour is within its own bounds and alpha is in [zero, max_intensity];
\* clamp (and clamp_assign) clamps alpha to that interval and the colour to
\* the colour's bounds; the alpha interval and the clamped alpha depend on
\* nothing of the wrapped colour.
C11_AlphaBoundsOwnInterval ==
    arg.ty.alpha =>
        /\ op = <<"is_within_bounds">> =>
              res = (/\ Color_is_within_bounds(arg.c.color, arg.ty)
                     /\ InInterval(arg.c.alpha, AlphaInterval(arg.ty)))
        /\ op \in {<<"clamp">>, <<"clamp_assign">>} =>
              /\ res.alpha = Nearest(arg.c.alpha, AlphaInterval(arg.ty))
              /\ res.color = Color_clamp(arg.c.color, arg.ty)

\* A Lab colour inside its bounds with an alpha above 1.0 (yet far inside
\* the interval of l): clamp brings alpha to 1.0 and leaves the colour.
C11_Witness ==
    /\ op = <<"clamp">>
    /\ arg.ty = [sp |-> "Lab", T |-> "f32", Wp |-> "D65", alpha |-> TRUE]
    /\ arg.c = Alpha(Lab(50 * Scale, 0 - (Scale \div 2), 0 - (Scale \div 2)), Scale + Excess)
    /\ res = Alpha(Lab(50 * Scale, 0 - (Scale \div 2), 0 - (Scale \div 2)), Scale)

\* The factor brought into [0, 1].
UnitFactor(factor) == Nearest(factor, <<0, Scale>>)

\* C12: Alpha::mix(self, other, factor) blends alpha in lock-step with the
\* colour: with f = clamp(factor, 0, 1) the colour of the result is
\* self.color.mix(other.color, f) and its alpha is
\* self.alpha + f * (other.alpha - self.alpha).
C12_AlphaMixLockStep ==
    (arg.ty.alpha /\ op = <<"mix">>) =>
        /\ res.color = Color_mix(arg.c.color, arg.other.color, UnitFactor(arg.factor), arg.ty)
        /\ res.alpha = arg.c.alpha
                       + (UnitFactor(arg.factor) * (arg.other.alpha - arg.c.alpha)) \div Scale

\* Mixing with a factor above 1.0: colour and alpha both arrive at other's.
C12_Witness ==
    /\ op = <<"mix">>
    /\ arg.ty = [sp |-> "Xyz", T |-> "f32", Wp |-> "E", alpha |-> TRUE]
    /\ arg.c = Alpha(Xyz(0 - Excess, 0 - Excess, 0 - Excess), 0 - Excess)
    /\ arg.other = Alpha(Xyz(Scale, Scale, Scale), Scale)
    /\ arg.factor = 3 * (Scale \div 2)
    /\ res = arg.other

\* What lighten(factor) and saturate(factor) do to a channel x of [lo, hi],
\* and what lighten_fixed(amount) and saturate_fixed(amount) do.
TowardsMax(x, factor, lo, hi) ==
    LET difference == IF factor >= 0 THEN hi - x ELSE x
        delta == ((IF difference > 0 THEN difference ELSE 0) * factor) \div Scale
    IN IF x + delta >= lo THEN x + delta ELSE lo

TowardsMaxFixed(x, amount, lo, hi) ==
    IF x + (hi * amount) \div Scale >= lo THEN x + (hi * amount) \div Scale ELSE lo

MixOps == {<<"mix">>, <<"mix_assign">>}

RelativeOps == {<<"lighten">>, <<"lighten_assign">>, <<"saturate">>, <<"saturate_assign">>}

FixedOps ==
    {<<"lighten_fixed">>, <<"lighten_fixed_assign">>,
     <<"saturate_fixed">>, <<"saturate_fixed_assign">>}

AlphaMixed ==
    res.alpha = arg.c.alpha
                + (UnitFactor(arg.factor) * (arg.other.alpha - arg.c.alpha)) \div Scale

\* C13 as stated: in every Alpha operation that takes a blend factor or an
\* amount (mix, lighten, lighten_fixed, saturate, saturate_fixed and their
\* assign forms) the alpha channel undergoes the same interpolation, with
\* the identical factor, as the wrapped colour.
C13_AlphaFollowsEveryFactor ==
    arg.ty.alpha =>
        /\ op \in MixOps => AlphaMixed
        /\ op \in RelativeOps =>
              res.alpha = TowardsMax(arg.c.alpha, arg.factor,
                                     AlphaInterval(arg.ty)[1], AlphaInterval(arg.ty)[2])
        /\ op \in FixedOps =>
              res.alpha = TowardsMaxFixed(arg.c.alpha, arg.factor,
                                          AlphaInterval(arg.ty)[1], AlphaInterval(arg.ty)[2])

\* C13 amended: mix and mix_assign blend alpha with the identical clamped
\* factor as the wrapped colour; lighten, lighten_fixed, saturate,
\* saturate_fixed and their assign forms pass the factor or amount to the
\* wrapped colour alone and leave alpha as it was.
C13_AlphaFollowsMixOnly ==
    arg.ty.alpha =>
        /\ op \in MixOps =>
              /\ AlphaMixed
              /\ res.color = Color_mix(arg.c.color, arg.other.color,
                                       UnitFactor(arg.factor), arg.ty)
        /\ op \in RelativeOps \cup FixedOps => res.alpha = arg.c.alpha
        /\ op \in {<<"lighten">>, <<"lighten_assign">>} =>
              res.color = Color_lighten(arg.c.color, arg.factor, arg.ty)
        /\ op \in {<<"lighten_fixed">>, <<"lighten_fixed_assign">>} =>
              res.color = Color_lighten_fixed(arg.c.color, arg.factor, arg.ty)
        /\ op \in {<<"saturate">>, <<"saturate_assign">>,
                   <<"saturate_fixed">>, <<"saturate_fixed_assign">>} =>
              /\ res.color.method = op[1]
              /\ res.color.self = arg.c.color
              /\ res.color.by = arg.factor

\* Lightening a half-lit Luv colour by 1.0: l reaches its maximum and
\* alpha, just below 0.0, stays where it was.
C13_Witness ==
    /\ op = <<"lighten">>
    /\ arg.ty = [sp |-> "Luv", T |-> "f32", Wp |-> "D65", alpha |-> TRUE]
    /\ arg.factor = 2 * (Scale \div 2)
    /\ arg.c.alpha = 0 - Excess
    /\ arg.c.color.l = 50 * Scale
    /\ res.color.l = 50 * Scale + ((50 * Scale) * (2 * (Scale \div 2))) \div Scale
    /\ res.alpha = 0 - Excess

InputColor == IF arg.ty.alpha THEN arg.c.color ELSE arg.c

\* Lab: a = b = 0; Luv: u = v = 0; Rgb: red = green = blue.
Achromatic(c, ty) ==
    IF ty.sp = "Rgb" THEN Channels(c, ty)[1] = Channels(c, ty)[2]
                          /\ Channels(c, ty)[2] = Channels(c, ty)[3]
    ELSE Channels(c, ty)[2] = 0 /\ Channels(c, ty)[3] = 0

\* C15: get_hue returns None exactly when the colour is achromatic (Lab
\* a = b = 0, Luv u = v = 0, Rgb red = green = blue) and Some(angle)
\* otherwise; the lightness channel of Lab and Luv never influences the
\* result; Alpha::get_hue returns the wrapped colour's result whatever the
\* alpha.
C15_HueNoneIffAchromatic ==
    op = <<"get_hue">> =>
        /\ res = None <=> Achromatic(InputColor, arg.ty)
        /\ res # None => res.some
        /\ arg.ty.sp \in {"Lab", "Luv"} =>
              \A l \in HueSamples :
                 res = Color_get_hue(new(arg.ty, <<l, Channels(InputColor, arg.ty)[2],
                                                   Channels(InputColor, arg.ty)[3]>>), arg.ty)
        /\ arg.ty.alpha =>
              \A a \in EndSamples(0, Scale) :
                 res = GetHue_get_hue(Alpha(arg.c.color, a), arg.ty)

\* A Lab colour of full lightness with a = 0 and b just above 0 has a hue.
C15_Witness ==
    /\ op = <<"get_hue">>
    /\ arg.ty = [sp |-> "Lab", T |-> "f32", Wp |-> "D65", alpha |-> FALSE]
    /\ arg.c = Lab(Scale, 0, Excess)
    /\ res = Some(from_radians("LabHue", atan2(Excess, 0)))

(***************************************************************************)
(* Construction and decomposition.                                         *)
(***************************************************************************)
\* The channels of the input in declaration order, alpha last.
InputComponents ==
    IF arg.ty.alpha THEN Channels(arg.c.color, arg.ty) \o <<arg.c.alpha>>
    ELSE Channels(arg.c, arg.ty)

\* C20: for Rgb, Xyz, Lab, Luv and their Alpha forms construction and
\* decomposition are exact inverses: new(c1, c2, c3[, alpha])
\* .into_components() = (c1, c2, c3[, alpha]) and
\* from_components(v.into_components()) = v, channels in declaration order
\* and alpha last, no channel altered, clamped or reordered.
C20_ComponentsRoundTrip ==
    /\ op = <<"into_components">> => res = InputComponents
    /\ op = <<"into_components", "new">> => res = arg.c
    /\ op = <<"into_components", "new", "into_components">> => res = InputComponents
    /\ op = <<"into_components", "from_components">> => res = arg.c

\* A Lab colour with alpha, every channel outside its interval: new of its
\* components decomposes to the same four values.
C20_Witness ==
    /\ op = <<"into_components", "new", "into_components">>
    /\ arg.ty = [sp |-> "Lab", T |-> "f32", Wp |-> "D65", alpha |-> TRUE]
    /\ arg.c = Alpha(Lab(0 - Excess, 127 * Scale + Excess, -128 * Scale - Excess),
                     Scale + Excess)
    /\ res = <<0 - Excess, 127 * Scale + Excess, -128 * Scale - Excess, Scale + Excess>>

(***************************************************************************)
(* Opaque by default.                                                      *)
(***************************************************************************)
\* The position of the alpha byte in a packed u32 of each channel order,
\* 3 the most significant byte.
AlphaByteAt(O) == IF O \in {"Abgr", "Argb"} THEN 3 ELSE 0

\* C21: Alpha::from(color) and Alpha::default() both give alpha equal to
\* T::max_intensity(), fully opaque, with the colour channels those of the
\* given colour resp. of the colour's default; so Rgb<S, u8>::into_u32 always
\* packs an alpha byte of 0xFF.
C21_OpaqueByDefault ==
    /\ op = <<"Alpha::from">> =>
          res.alpha = AlphaInterval(arg.ty)[2] /\ res.color = arg.c
    /\ op = <<"Alpha::default">> =>
          /\ res.alpha = AlphaInterval(arg.ty)[2]
          /\ Channels(res.color, arg.ty) = <<0, 0, 0>>
    /\ (Len(op) = 2 /\ op[1] = "into_u32") =>
          U32Byte(res, AlphaByteAt(op[2])) = 255

\* A Lab colour outside its bounds wrapped in Alpha: alpha is 1.0 and the
\* colour is untouched.
C21_Witness ==
    /\ op = <<"Alpha::from">>
    /\ arg.ty = [sp |-> "Lab", T |-> "f32", Wp |-> "D65", alpha |-> FALSE]
    /\ arg.c = Lab(0 - Excess, 127 * Scale + Excess, -128 * Scale - Excess)
    /\ res = Alpha(arg.c, Scale)

(***************************************************************************)
(* Mixing: the factor.                                                     *)
(***************************************************************************)
\* x lies between a and b, whichever is the larger.
Between(x, a, b) == (a <= x /\ x <= b) \/ (b <= x /\ x <= a)

\* C25: mix clamps its factor to [0, 1] before interpolating: a.mix(b, f) = a
\* for every f <= 0, a.mix(b, f) = b for every f >= 1, and for f in [0, 1]
\* every channel of the result lies between the corresponding channels of a
\* and b; for Alpha the factor is clamped by the wrapper and again by the
\* colour, with the outcome of clamping once.
C25_MixFactorClamped ==
    op \in MixOps =>
        /\ arg.factor <= 0 => res = arg.c
        /\ arg.factor >= Scale => res = arg.other
        /\ (0 <= arg.factor /\ arg.factor <= Scale) =>
              \A i \in DOMAIN AllChannels(res, arg.ty) :
                 Between(AllChannels(res, arg.ty)[i], AllChannels(arg.c, arg.ty)[i],
                         AllChannels(arg.other, arg.ty)[i])
        /\ arg.ty.alpha =>
              res.color = Color_mix(arg.c.color, arg.other.color, arg.factor, arg.ty)

\* Two different Xyz colours mixed with factor -1.5: the first comes back.
C25_Witness ==
    /\ op = <<"mix">>
    /\ arg.ty = [sp |-> "Xyz", T |-> "f32", Wp |-> "D65", alpha |-> FALSE]
    /\ arg.factor = 0 - 3 * (Scale \div 2)
    /\ arg.c = Xyz(0 - Excess, 0 - Excess, 0 - Excess)
    /\ arg.other = Xyz(get_xyz("D65").x, get_xyz("D65").y, get_xyz("D65").z)
    /\ res = arg.c

(***************************************************************************)
(* Lightening: the channels it moves.                                      *)
(***************************************************************************)
\* The channels that bear lightness: l of Lab and Luv, y of Xyz, all of Rgb.
LightnessChannels(ty) ==
    CASE ty.sp = "Rgb" -> {1, 2, 3}
      [] ty.sp = "Xyz" -> {2}
      [] ty.sp \in {"Lab", "Luv"} -> {1}

\* The colour part of the result.
ResultColor == IF arg.ty.alpha THEN res.color ELSE res

\* C26: lighten changes only the lightness-bearing channels and leaves every
\* other channel unchanged; for a lightness within [min, max] and a factor
\* in [-1, 1] the resulting lightness stays within [min, max], factor 1
\* giving exactly max and factor -1 exactly min; for any factor and any
\* input the result is never below min.
C26_LightenMovesLightnessOnly ==
    op \in {<<"lighten">>, <<"lighten_assign">>} =>
        \A i \in 1..3 :
           LET before == Channels(InputColor, arg.ty)[i]
               after == Channels(ResultColor, arg.ty)[i]
               min == Intervals(arg.ty)[i][1]
               max == Intervals(arg.ty)[i][2]
           IN IF i \notin LightnessChannels(arg.ty) THEN after = before
              ELSE /\ after >= min
                   /\ (min <= before /\ before <= max
                       /\ 0 - Scale <= arg.factor /\ arg.factor <= Scale) =>
                         /\ min <= after /\ after <= max
                         /\ arg.factor = Scale => after = max
                         /\ arg.factor = 0 - Scale => after = min

\* A Luv colour of lightness 50 lightened by 1.0: l is 100, u and v are as
\* they were, outside their intervals.
C26_Witness ==
    /\ op = <<"lighten">>
    /\ arg.ty = [sp |-> "Luv", T |-> "f32", Wp |-> "D65", alpha |-> FALSE]
    /\ arg.factor = 2 * (Scale \div 2)
    /\ arg.c.l = 50 * Scale
    /\ arg.c.u > Luv_max_u(arg.ty) /\ arg.c.v < Luv_min_v(arg.ty)
    /\ res = Luv(100 * Scale, arg.c.u, arg.c.v)

(***************************************************************************)
(* Component-wise operations.                                              *)
(***************************************************************************)
\* The arguments the i-th call is to have.
ChannelArgs(i) ==
    IF op = <<"component_wise">>
    THEN <<AllChannels(arg.c, arg.ty)[i], AllChannels(arg.other, arg.ty)[i]>>
    ELSE <<AllChannels(arg.c, arg.ty)[i]>>

\* C23: component_wise(self, other, f) calls f exactly once per channel, on
\* the pair of corresponding channels of self and other, in declaration
\* order (for Alpha the channels of the wrapped colour first, then alpha),
\* and builds the result, a value of the same type, from the returned
\* values in the same positions; component_wise_self does the same with the
\* one channel of self.
C23_OncePerChannelInOrder ==
    op \in {<<"component_wise">>, <<"component_wise_self">>} =>
        /\ Len(res.calls) = Len(AllChannels(arg.c, arg.ty))
        /\ DOMAIN res.value = DOMAIN arg.c
        /\ \A i \in DOMAIN res.calls :
              /\ res.calls[i] = ChannelArgs(i)
              /\ AllChannels(res.value, arg.ty)[i] = [f |-> i, of |-> ChannelArgs(i)]

\* Two Luv colours with alpha: four calls, the alphas in the fourth.
C23_Witness ==
    /\ op = <<"component_wise">>
    /\ arg.ty = [sp |-> "Luv", T |-> "f32", Wp |-> "D65", alpha |-> TRUE]
    /\ arg.c.alpha = 0 - Excess /\ arg.other.alpha = Scale
    /\ arg.c.color.l # arg.other.color.l
    /\ Len(res.calls) = 4
    /\ res.calls[1] = <<arg.c.color.l, arg.other.color.l>>
    /\ res.calls[4] = <<0 - Excess, Scale>>
    /\ res.value.alpha = [f |-> 4, of |-> <<0 - Excess, Scale>>]

(***************************************************************************)
(* Conversions between colour spaces.  Functions whose value is not needed *)
(* (powf of a transfer function, the matrices of an RGB space) are kept as *)
(* the application itself: which function, on which arguments.             *)
(***************************************************************************)
\* a / b on the grid, for b # 0
FDiv(a, b) == (a * Scale) \div b

\* x.powf(e)
powf(x, e) == [fn |-> "powf", base |-> x, exp |-> e]

\* RGB standards: the type (name), the primaries and white point of its
\* space, and its transfer function.  "(Srgb, SrgbFn)" is the tuple standard:
\* another type than Srgb with the same space and transfer function.
RgbStandards ==
    {[name |-> "Srgb", primaries |-> "Srgb", Wp |-> "D65", TransferFn |-> "SrgbFn"],
     [name |-> "(Srgb, SrgbFn)", primaries |-> "Srgb", Wp |-> "D65", TransferFn |-> "SrgbFn"],
     [name |-> "Linear<Srgb>", primaries |-> "Srgb", Wp |-> "D65", TransferFn |-> "LinearFn"],
     [name |-> "Gamma<Srgb>", primaries |-> "Srgb", Wp |-> "D65", TransferFn |-> "GammaFn"],
     [name |-> "Linear<(P3, D65)>", primaries |-> "P3", Wp |-> "D65", TransferFn |-> "LinearFn"],
     [name |-> "Gamma<(P3, D65)>", primaries |-> "P3", Wp |-> "D65", TransferFn |-> "GammaFn"]}

\* F2p2::VALUE
F2p2 == (22 * Scale) \div 10

\* TransferFn::into_linear and from_linear: GammaFn as in encoding/gamma.rs,
\* LinearFn the identity, SrgbFn kept as the application.
TransferFn_into_linear(tf, x) ==
    CASE tf = "GammaFn" -> powf(x, FDiv(one("f32"), F2p2))
      [] tf = "LinearFn" -> x
      [] tf = "SrgbFn" -> [fn |-> "SrgbFn::into_linear", x |-> x]

\* A from_linear that raises to the exponent of into_linear.
TransferFn_from_linear_same_exponent(tf, x) == TransferFn_into_linear(tf, x)

TransferFn_from_linear(tf, x) ==
    CASE tf = "GammaFn" -> powf(x, F2p2)
      [] tf = "LinearFn" -> x
      [] tf = "SrgbFn" -> [fn |-> "SrgbFn::from_linear", x |-> x]

Rgb_into_linear(S, c) ==
    Rgb(TransferFn_into_linear(S.TransferFn, c.red),
        TransferFn_into_linear(S.TransferFn, c.green),
        TransferFn_into_linear(S.TransferFn, c.blue))

Rgb_from_linear(S, c) ==
    Rgb(TransferFn_from_linear(S.TransferFn, c.red),
        TransferFn_from_linear(S.TransferFn, c.green),
        TransferFn_from_linear(S.TransferFn, c.blue))

Rgb_reinterpret_as(c) == [red |-> c.red, green |-> c.green, blue |-> c.blue]

\* The matrices of an RGB space and the products with them.
rgb_to_xyz_matrix(S) ==
    [fn |-> "rgb_to_xyz_matrix", primaries |-> S.primaries, Wp |-> S.Wp]

matrix_inverse(a) == [fn |-> "matrix_inverse", a |-> a]

multiply_rgb_to_xyz(c, f) ==
    Xyz([fn |-> "multiply_rgb_to_xyz", row |-> 1, c |-> c, f |-> f],
        [fn |-> "multiply_rgb_to_xyz", row |-> 2, c |-> c, f |-> f],
        [fn |-> "multiply_rgb_to_xyz", row |-> 3, c |-> c, f |-> f])

multiply_xyz_to_rgb(c, f) ==
    Rgb([fn |-> "multiply_xyz_to_rgb", row |-> 1, c |-> c, f |-> f],
        [fn |-> "multiply_xyz_to_rgb", row |-> 2, c |-> c, f |-> f],
        [fn |-> "multiply_xyz_to_rgb", row |-> 3, c |-> c, f |-> f])

\* Xyz from Rgb<S> and Rgb<S> from Xyz
Xyz_from_Rgb(S, color) ==
    LET transform_matrix == rgb_to_xyz_matrix(S)
    IN multiply_rgb_to_xyz(transform_matrix, Rgb_into_linear(S, color))

Rgb_from_Xyz(S, color) ==
    LET transform_matrix == matrix_inverse(rgb_to_xyz_matrix(S))
    IN Rgb_from_linear(S, multiply_xyz_to_rgb(transform_matrix, color))

\* An Rgb from Rgb that decodes with S1's transfer function and encodes with
\* S2's.
Rgb_from_Rgb_transfer_swapped(S1, S2, rgb) ==
    IF S1.name = S2.name THEN Rgb_reinterpret_as(rgb)
    ELSE IF S1.primaries = S2.primaries
    THEN Rgb_from_linear(S2, Rgb_reinterpret_as(Rgb_into_linear(S1, rgb)))
    ELSE Rgb_from_Xyz(S1, Xyz_from_Rgb(S2, rgb))

\* Rgb<S1> from Rgb<S2>
Rgb_from_Rgb(S1, S2, rgb) ==
    LET rgb_space1 == S1.primaries
        rgb_space2 == S2.primaries
    IN IF S1.name = S2.name THEN Rgb_reinterpret_as(rgb)
       ELSE IF rgb_space1 = rgb_space2
       THEN Rgb_from_linear(S1, Rgb_reinterpret_as(Rgb_into_linear(S2, rgb)))
       ELSE Rgb_from_Xyz(S1, Xyz_from_Rgb(S2, rgb))

(***************************************************************************)
(* Xyz, Lab and Luv.  These conversions are computed on the grid.  Each    *)
(* returns the colour together with the divisors it evaluated, in the      *)
(* order of evaluation: the d of a / d and of d.recip().  A product with a *)
(* reciprocal, a * d.recip(), is the quotient a / d.                       *)
(***************************************************************************)
\* from_f64(p / q) for whole numbers p and q
Ratio(p, q) == (p * Scale) \div q

\* c.powi(3)
powi3(c) == FMul(FMul(c, c), c)

\* c.cbrt() and c.powf(1.0 / 3.0) of a positive c
cbrt(c) == CHOOSE r \in 0..(c + Scale) : r * r * r <= c * Scale * Scale
                                         /\ c * Scale * Scale < (r + 1) * (r + 1) * (r + 1)

\* A divisor evaluated: which expression of the code, and its value.
Divisor(of, d) == [of |-> of, d |-> d]

Converted(value, divisors) == [value |-> value, divisors |-> divisors]

\* color.l < from_f64(1e-5), compared exactly: 1e-5 is below the grid.
BelowTiny(l) == l * 100000 < Scale

\* convert of Lab from Xyz
Lab_convert(c) ==
    LET epsilon == powi3(Ratio(6, 29))
        kappa == Ratio(841, 108)
        delta == Ratio(4, 29)
    IN IF c > epsilon THEN cbrt(c) ELSE FMul(kappa, c) + delta

\* Lab<Wp, T> from Xyz<Wp, T>
Lab_from_Xyz(Wp, color) ==
    LET w == get_xyz(Wp)
        x == Lab_convert(Quot(color.x, w.x))
        y == Lab_convert(Quot(color.y, w.y))
        z == Lab_convert(Quot(color.z, w.z))
    IN Converted(Lab(FMul(y, from_f64(116)) - from_f64(16),
                     FMul(x - y, from_f64(500)),
                     FMul(y - z, from_f64(200))),
                 <<Divisor("w.x", w.x), Divisor("w.y", w.y), Divisor("w.z", w.z)>>)

\* convert of Xyz from Lab
Xyz_convert(c) ==
    LET epsilon == Ratio(6, 29)
        kappa == Ratio(108, 841)
        delta == Ratio(4, 29)
    IN IF c > epsilon THEN powi3(c) ELSE FMul(c - delta, kappa)

\* Xyz<Wp, T> from Lab<Wp, T>
Xyz_from_Lab(Wp, color) ==
    LET w == get_xyz(Wp)
        y == Quot(color.l + from_f64(16), from_f64(116))
        x == y + Quot(color.a, from_f64(500))
        z == y - Quot(color.b, from_f64(200))
    IN Converted(Xyz(FMul(Xyz_convert(x), w.x), FMul(Xyz_convert(y), w.y),
                     FMul(Xyz_convert(z), w.z)),
                 <<Divisor("116.0", from_f64(116)), Divisor("500.0", from_f64(500)),
                   Divisor("200.0", from_f64(200))>>)

\* w.x + 15 * w.y + 3 * w.z, the denominator of the white point's u', v'
ref_denom(Wp) ==
    get_xyz(Wp).x + FMul(from_f64(15), get_xyz(Wp).y) + FMul(from_f64(3), get_xyz(Wp).z)

u_ref(Wp) == Quot(FMul(from_f64(4), get_xyz(Wp).x), ref_denom(Wp))

v_ref(Wp) == Quot(FMul(from_f64(9), get_xyz(Wp).y), ref_denom(Wp))

\* Luv<Wp, T> from Xyz<Wp, T>
Luv_from_Xyz(Wp, color) ==
    LET w == get_xyz(Wp)
        kappa == powi3(Ratio(29, 3))
        epsilon == powi3(Ratio(6, 29))
        prime_denom == color.x + FMul(from_f64(15), color.y) + FMul(from_f64(3), color.z)
    IN IF prime_denom = from_f64(0) THEN Converted(Luv(zero("f32"), zero("f32"), zero("f32")), <<>>)
       ELSE LET u_prime == Quot(FMul(from_f64(4), color.x), prime_denom)
                v_prime == Quot(FMul(from_f64(9), color.y), prime_denom)
                y_r == Quot(color.y, w.y)
                l == IF y_r > epsilon THEN FMul(from_f64(116), cbrt(y_r)) - from_f64(16)
                     ELSE FMul(kappa, y_r)
            IN Converted(Luv(l, FMul(FMul(from_f64(13), l), u_prime - u_ref(Wp)),
                             FMul(FMul(from_f64(13), l), v_prime - v_ref(Wp))),
                         <<Divisor("prime_denom", prime_denom),
                           Divisor("w.x + 15 * w.y + 3 * w.z", ref_denom(Wp)),
                           Divisor("w.y", w.y)>>)

\* The rest of Xyz from Luv, after the test of color.l that `small` makes.
Xyz_from_Luv_after(Wp, color, small) ==
    LET w == get_xyz(Wp)
        kappa == powi3(Ratio(29, 3))
        before == <<Divisor("w.x + 15 * w.y + 3 * w.z", ref_denom(Wp))>>
    IN IF small THEN Converted(Xyz(zero("f32"), zero("f32"), zero("f32")), before)
       ELSE LET large == color.l > from_f64(8)
                y == FMul(IF large
                          THEN powi3(Quot(color.l + from_f64(16), from_f64(116)))
                          ELSE Quot(color.l, kappa),
                          w.y)
                u_prime == Quot(color.u, FMul(from_f64(13), color.l)) + u_ref(Wp)
                v_prime == Quot(color.v, FMul(from_f64(13), color.l)) + v_ref(Wp)
                x == Quot(FMul(FMul(y, Ratio(225, 100)), u_prime), v_prime)
                z == Quot(FMul(y, from_f64(3) - FMul(Ratio(75, 100), u_prime)
                                  - FMul(from_f64(5), v_prime)),
                          v_prime)
            IN Converted(Xyz(x, y, z),
                         before \o
                         <<IF large THEN Divisor("116.0", from_f64(116))
                           ELSE Divisor("kappa", kappa),
                           Divisor("13.0 * color.l", FMul(from_f64(13), color.l)),
                           Divisor("13.0 * color.l", FMul(from_f64(13), color.l)),
                           Divisor("v_prime", v_prime), Divisor("v_prime", v_prime)>>)

\* An Xyz from Luv that short-circuits for l = 0 alone.
Xyz_from_Luv_zero_only(Wp, color) ==
    Xyz_from_Luv_after(Wp, color, color.l = 0)

\* Xyz<Wp, T> from Luv<Wp, T>
Xyz_from_Luv(Wp, color) ==
    Xyz_from_Luv_after(Wp, color, BelowTiny(color.l))

(***************************************************************************)
(* Rgb from Hsl and from Hsv.  A hue is its angle in degrees.              *)
(***************************************************************************)
\* The sectors of sixty degrees in a turn.
SectorsPerTurn == 6

Hsl(hue, saturation, lightness) ==
    [hue |-> hue, saturation |-> saturation, lightness |-> lightness]

Hsv(hue, saturation, value) == [hue |-> hue, saturation |-> saturation, value |-> value]

\* RgbHue::to_positive_degrees: the angle in [0, 360)
to_positive_degrees(hue) == hue % from_f64(360)

\* Float::abs
abs(a) == IF a < 0 THEN 0 - a ELSE a

\* An Rgb from (c, x, m) and h with the two last sectors exchanged.
Rgb_from_sector_last_two_swapped(c, x, m, h) ==
    LET rgb == IF h >= zero("f32") /\ h < one("f32") THEN <<c, x, zero("f32")>>
               ELSE IF h >= one("f32") /\ h < from_f64(2) THEN <<x, c, zero("f32")>>
               ELSE IF h >= from_f64(2) /\ h < from_f64(3) THEN <<zero("f32"), c, x>>
               ELSE IF h >= from_f64(3) /\ h < from_f64(4) THEN <<zero("f32"), x, c>>
               ELSE IF h >= from_f64(4) /\ h < from_f64(5) THEN <<c, zero("f32"), x>>
               ELSE <<x, zero("f32"), c>>
    IN Rgb(rgb[1] + m, rgb[2] + m, rgb[3] + m)

\* The branches on h that Rgb from Hsl (rgb.rs 503-522) and Rgb from Hsv
\* (rgb.rs 536-555) share, and the Rgb built from their result.
Rgb_from_sector(c, x, m, h) ==
    LET rgb == IF h >= zero("f32") /\ h < one("f32") THEN <<c, x, zero("f32")>>
               ELSE IF h >= one("f32") /\ h < from_f64(2) THEN <<x, c, zero("f32")>>
               ELSE IF h >= from_f64(2) /\ h < from_f64(3) THEN <<zero("f32"), c, x>>
               ELSE IF h >= from_f64(3) /\ h < from_f64(4) THEN <<zero("f32"), x, c>>
               ELSE IF h >= from_f64(4) /\ h < from_f64(5) THEN <<x, zero("f32"), c>>
               ELSE <<c, zero("f32"), x>>
    IN Rgb(rgb[1] + m, rgb[2] + m, rgb[3] + m)

\* Rgb<S, T> from Hsl<S, T>
Rgb_from_Hsl(hsl) ==
    LET c == FMul(one("f32") - abs(FMul(hsl.lightness, from_f64(2)) - one("f32")),
                  hsl.saturation)
        h == Quot(to_positive_degrees(hsl.hue), from_f64(60))
        x == FMul(c, one("f32") - abs((h % from_f64(2)) - one("f32")))
        m == hsl.lightness - FMul(c, Ratio(5, 10))
    IN Rgb_from_sector(c, x, m, h)

\* Rgb<S, T> from Hsv<S, T>
Rgb_from_Hsv(hsv) ==
    LET c == FMul(hsv.value, hsv.saturation)
        h == Quot(to_positive_degrees(hsv.hue), from_f64(60))
        x == FMul(c, one("f32") - abs((h % from_f64(2)) - one("f32")))
        m == hsv.value - c
    IN Rgb_from_sector(c, x, m, h)

(***************************************************************************)
(* Alpha of a colour: conversion, encoding, white point and hue.           *)
(***************************************************************************)
\* WithAlpha::split of an Alpha
Alpha_split(c) == <<c.color, c.alpha>>

\* color.into_color_unclamped(): the from_color_unclamped of the target type
into_color_unclamped(from, to, Wp, color) ==
    CASE from = to -> color
      [] from = "Xyz" /\ to = "Lab" -> Lab_from_Xyz(Wp, color).value
      [] from = "Xyz" /\ to = "Luv" -> Luv_from_Xyz(Wp, color).value
      [] from = "Lab" /\ to = "Xyz" -> Xyz_from_Lab(Wp, color).value
      [] from = "Luv" /\ to = "Xyz" -> Xyz_from_Luv(Wp, color).value

\* An Alpha from_color_unclamped that yields an opaque colour.
Alpha_from_color_unclamped_opaque(from, to, Wp, other) ==
    LET parts == Alpha_split(other)
    IN Alpha(into_color_unclamped(from, to, Wp, parts[1]), max_intensity("f32"))

\* Alpha<C2, T>::from_color_unclamped(other: C1)
Alpha_from_color_unclamped(from, to, Wp, other) ==
    LET parts == Alpha_split(other)
    IN Alpha(into_color_unclamped(from, to, Wp, parts[1]), parts[2])

\* Rgb::into_encoding::<St>() and Rgb::from_encoding::<St>(color)
Rgb_into_encoding(S, St, c) ==
    Rgb(TransferFn_from_linear(St.TransferFn, TransferFn_into_linear(S.TransferFn, c.red)),
        TransferFn_from_linear(St.TransferFn, TransferFn_into_linear(S.TransferFn, c.green)),
        TransferFn_from_linear(St.TransferFn, TransferFn_into_linear(S.TransferFn, c.blue)))

Rgb_from_encoding(S, St, color) ==
    Rgb(TransferFn_from_linear(S.TransferFn, TransferFn_into_linear(St.TransferFn, color.red)),
        TransferFn_from_linear(S.TransferFn, TransferFn_into_linear(St.TransferFn, color.green)),
        TransferFn_from_linear(S.TransferFn, TransferFn_into_linear(St.TransferFn, color.blue)))

\* Rgba: into_linear, from_linear, into_encoding and from_encoding
Rgba_into_linear(S, c) ==
    Alpha(Rgb(TransferFn_into_linear(S.TransferFn, c.color.red),
              TransferFn_into_linear(S.TransferFn, c.color.green),
              TransferFn_into_linear(S.TransferFn, c.color.blue)),
          c.alpha)

Rgba_from_linear(S, color) ==
    Alpha(Rgb(TransferFn_from_linear(S.TransferFn, color.color.red),
              TransferFn_from_linear(S.TransferFn, color.color.green),
              TransferFn_from_linear(S.TransferFn, color.color.blue)),
          color.alpha)

Rgba_into_encoding(S, St, c) ==
    Alpha(Rgb(TransferFn_from_linear(St.TransferFn,
                                     TransferFn_into_linear(S.TransferFn, c.color.red)),
              TransferFn_from_linear(St.TransferFn,
                                     TransferFn_into_linear(S.TransferFn, c.color.green)),
              TransferFn_from_linear(St.TransferFn,
                                     TransferFn_into_linear(S.TransferFn, c.color.blue))),
          c.alpha)

Rgba_from_encoding(S, St, color) ==
    Alpha(Rgb(TransferFn_from_linear(S.TransferFn,
                                     TransferFn_into_linear(St.TransferFn, color.color.red)),
              TransferFn_from_linear(S.TransferFn,
                                     TransferFn_into_linear(St.TransferFn, color.color.green)),
              TransferFn_from_linear(S.TransferFn,
                                     TransferFn_into_linear(St.TransferFn, color.color.blue))),
          color.alpha)

\* Xyz::with_white_point::<NewWp>() and the same of Xyza
Xyz_with_white_point(c) == Xyz(c.x, c.y, c.z)

Xyza_with_white_point(c) == Alpha(Xyz(c.color.x, c.color.y, c.color.z), c.alpha)

\* with_hue, set_hue, shift_hue and shift_hue_assign of the wrapped colour,
\* kept as the application: the colour that f returns or leaves in place.
hue_op(f, color, v) == [fn |-> f, self |-> color, v |-> v]

\* The same four of Alpha: each hands its argument to the wrapped colour's
\* and stores or leaves the outcome in self.color.
Alpha_hue_op(f, c, v) == [c EXCEPT !.color = hue_op(f, c.color, v)]

(***************************************************************************)
(* The conversion specification: one conversion of one input.              *)
(***************************************************************************)
UnitSamples == {0 - Excess, 0, Scale \div 2, Scale}

\* Rgb<S2> values to convert to Rgb<S1>; both spaces have one white point.
RgbToRgbInputs(S1) ==
    {[kind |-> "Rgb<S2>", to |-> S1, from |-> S2, c |-> Rgb(r, g, b)] :
        S2 \in {S \in RgbStandards : S.Wp = S1.Wp},
        r \in UnitSamples, g \in UnitSamples, b \in UnitSamples}

\* Xyz values: around zero, and with x + 15 y + 3 z = 0 in channels that
\* are not zero.
XyzInputs(Wp) ==
    {[kind |-> "Xyz", Wp |-> Wp, c |-> Xyz(x, y, z)] :
        x \in {0 - 3 * Excess, 0, 15 * Excess, Scale \div 2, Scale},
        y \in {0 - Excess, 0, Excess, Scale},
        z \in {0, Excess, Scale}}

\* Lab values
LabInputs(Wp) ==
    {[kind |-> "Lab", Wp |-> Wp, c |-> Lab(l, a, b)] :
        l \in {0 - from_f64(16), 0, from_f64(50), from_f64(100)},
        a \in {0 - from_f64(100), 0, Excess, from_f64(100)},
        b \in {0 - from_f64(100), 0, from_f64(100)}}

\* Luv values: l below, at and above zero and above 8.0; v around zero and
\* at the opposite of 13 * v_ref.
LuvInputs(Wp) ==
    {[kind |-> "Luv", Wp |-> Wp, c |-> Luv(l, u, v)] :
        l \in {0 - Scale, 0 - Excess, 0, Excess, Scale, from_f64(9)},
        u \in {0 - Scale, 0, Scale},
        v \in {0 - 13 * v_ref(Wp), 0 - Scale, 0, Scale}}

ConvertInputs(Wp) == XyzInputs(Wp) \cup LabInputs(Wp) \cup LuvInputs(Wp)

\* Alpha values: below, at and above the ends of [0, 1].
AlphaValues == {0 - Excess, 0, Scale \div 2, Scale, Scale + Excess}

\* Colours with transparency to convert.
AlphaConvertInputs(Wp) ==
    {[kind |-> "Alpha", from |-> i.kind, Wp |-> Wp, c |-> Alpha(i.c, a)] :
        i \in ConvertInputs(Wp), a \in AlphaValues}

\* Rgba<S> values, and a standard St of the same space.
RgbaInputs(S) ==
    {[kind |-> "Rgba", S |-> S, St |-> St, c |-> Alpha(Rgb(r, g, b), a)] :
        St \in {St \in RgbStandards : St.primaries = S.primaries /\ St.Wp = S.Wp},
        r \in UnitSamples, g \in {0, Scale}, b \in {Scale \div 2}, a \in AlphaValues}

\* Encoded or linear values for a transfer function: [0, 1] in steps of the
\* grid, and values below and above it.
TransferInputs(tf) ==
    {[kind |-> "TransferFn", tf |-> tf, c |-> x] :
        x \in (0 - Scale - Excess)..(2 * Scale + Excess)}

\* Hues: the start, the middle and the last grid point of every sector, one
\* turn below zero and one turn above 360 degrees included.
HueDegrees ==
    {from_f64(60) * k + d : k \in (0 - SectorsPerTurn)..(2 * SectorsPerTurn - 1),
                            d \in {0, from_f64(30), from_f64(60) - Excess}}

HslInputs(hue) ==
    {[kind |-> "Hsl", c |-> Hsl(hue, saturation, lightness)] :
        saturation \in {0, Scale \div 2, Scale},
        lightness \in {0, Scale \div 4, Scale \div 2, Scale}}

HsvInputs(hue) ==
    {[kind |-> "Hsv", c |-> Hsv(hue, saturation, value)] :
        saturation \in {0, Scale \div 2, Scale},
        value \in {0, Scale \div 4, Scale \div 2, Scale}}

\* Hsla and Hsva values.
AlphaHueInputs(hue) ==
    {[kind |-> "Alpha hue", c |-> Alpha(i.c, a)] :
        i \in HslInputs(hue) \cup HsvInputs(hue), a \in AlphaValues}

InitConvert ==
    /\ op = <<>>
    /\ \/ \E S1 \in RgbStandards : arg \in RgbToRgbInputs(S1)
       \/ \E Wp \in DOMAIN WhitePoints : arg \in ConvertInputs(Wp)
       \/ \E hue \in HueDegrees : arg \in HslInputs(hue) \cup HsvInputs(hue)
       \/ \E tf \in {"GammaFn"} : arg \in TransferInputs(tf)
       \/ \E Wp \in DOMAIN WhitePoints : arg \in AlphaConvertInputs(Wp)
       \/ \E S \in RgbStandards : arg \in RgbaInputs(S)
       \/ \E hue \in {from_f64(60) * k : k \in 0..SectorsPerTurn} : arg \in AlphaHueInputs(hue)
    /\ res = arg.c

\* Rgb::<S1, T>::from_color_unclamped(rgb: Rgb<S2, T>)
RgbFromRgb ==
    /\ arg.kind = "Rgb<S2>" /\ op = <<>>
    /\ op' = <<"Rgb from Rgb">>
    /\ res' = Rgb_from_Rgb(arg.to, arg.from, res)
    /\ UNCHANGED arg

\* Lab::<Wp, T>::from_color_unclamped(color: Xyz<Wp, T>)
LabFromXyz ==
    /\ arg.kind = "Xyz" /\ op = <<>>
    /\ op' = <<"Lab from Xyz">>
    /\ res' = Lab_from_Xyz(arg.Wp, res)
    /\ UNCHANGED arg

\* Luv::<Wp, T>::from_color_unclamped(color: Xyz<Wp, T>)
LuvFromXyz ==
    /\ arg.kind = "Xyz" /\ op = <<>>
    /\ op' = <<"Luv from Xyz">>
    /\ res' = Luv_from_Xyz(arg.Wp, res)
    /\ UNCHANGED arg

\* Xyz::<Wp, T>::from_color_unclamped(color: Lab<Wp, T>)
XyzFromLab ==
    /\ arg.kind = "Lab" /\ op = <<>>
    /\ op' = <<"Xyz from Lab">>
    /\ res' = Xyz_from_Lab(arg.Wp, res)
    /\ UNCHANGED arg

\* Xyz::<Wp, T>::from_color_unclamped(color: Luv<Wp, T>)
XyzFromLuv ==
    /\ arg.kind = "Luv" /\ op = <<>>
    /\ op' = <<"Xyz from Luv">>
    /\ res' = Xyz_from_Luv(arg.Wp, res)
    /\ UNCHANGED arg

\* Rgb::<S, T>::from_color_unclamped(hsl: Hsl<S, T>)
RgbFromHsl ==
    /\ arg.kind = "Hsl" /\ op = <<>>
    /\ op' = <<"Rgb from Hsl">>
    /\ res' = Rgb_from_Hsl(res)
    /\ UNCHANGED arg

\* Rgb::<S, T>::from_color_unclamped(hsv: Hsv<S, T>)
RgbFromHsv ==
    /\ arg.kind = "Hsv" /\ op = <<>>
    /\ op' = <<"Rgb from Hsv">>
    /\ res' = Rgb_from_Hsv(res)
    /\ UNCHANGED arg

\* TransferFn::into_linear(x), on the input or on an encoded value
IntoLinear ==
    /\ arg.kind = "TransferFn" /\ op \in {<<>>, <<"from_linear">>}
    /\ op' = Append(op, "into_linear")
    /\ res' = TransferFn_into_linear(arg.tf, res)
    /\ UNCHANGED arg

\* TransferFn::from_linear(x), on the input or on a decoded value
FromLinear ==
    /\ arg.kind = "TransferFn" /\ op \in {<<>>, <<"into_linear">>}
    /\ op' = Append(op, "from_linear")
    /\ res' = TransferFn_from_linear(arg.tf, res)
    /\ UNCHANGED arg

\* Alpha::<C2, T>::from_color_unclamped(other) of an Alpha<C1, T>
AlphaFromColorUnclamped ==
    /\ arg.kind = "Alpha" /\ op = <<>>
    /\ \E to \in {"Xyz", "Lab", "Luv"} :
          /\ arg.from = to \/ arg.from = "Xyz" \/ to = "Xyz"
          /\ op' = <<"from_color_unclamped", to>>
          /\ res' = Alpha_from_color_unclamped(arg.from, to, arg.Wp, res)
    /\ UNCHANGED arg

\* Rgba::into_linear()
RgbaIntoLinear ==
    /\ arg.kind = "Rgba" /\ op = <<>>
    /\ op' = <<"Rgba into_linear">>
    /\ res' = Rgba_into_linear(arg.S, res)
    /\ UNCHANGED arg

\* Rgba::from_linear(color)
RgbaFromLinear ==
    /\ arg.kind = "Rgba" /\ op = <<>>
    /\ op' = <<"Rgba from_linear">>
    /\ res' = Rgba_from_linear(arg.S, res)
    /\ UNCHANGED arg

\* Rgba::into_encoding::<St>()
RgbaIntoEncoding ==
    /\ arg.kind = "Rgba" /\ op = <<>>
    /\ op' = <<"Rgba into_encoding">>
    /\ res' = Rgba_into_encoding(arg.S, arg.St, res)
    /\ UNCHANGED arg

\* Rgba::from_encoding::<St>(color)
RgbaFromEncoding ==
    /\ arg.kind = "Rgba" /\ op = <<>>
    /\ op' = <<"Rgba from_encoding">>
    /\ res' = Rgba_from_encoding(arg.S, arg.St, res)
    /\ UNCHANGED arg

\* Xyza::with_white_point::<NewWp>()
XyzaWithWhitePoint ==
    /\ arg.kind = "Alpha" /\ arg.from = "Xyz" /\ op = <<>>
    /\ op' = <<"with_white_point">>
    /\ res' = Xyza_with_white_point(res)
    /\ UNCHANGED arg

\* The hues and amounts handed to the hue operations.
HueArguments == {0 - from_f64(90), from_f64(400)}

\* Alpha::with_hue(hue)
AlphaWithHue ==
    /\ arg.kind = "Alpha hue" /\ op = <<>>
    /\ \E hue \in HueArguments :
          /\ op' = <<"with_hue", hue>>
          /\ res' = Alpha_hue_op("with_hue", res, hue)
    /\ UNCHANGED arg

\* Alpha::set_hue(hue)
AlphaSetHue ==
    /\ arg.kind = "Alpha hue" /\ op = <<>>
    /\ \E hue \in HueArguments :
          /\ op' = <<"set_hue", hue>>
          /\ res' = Alpha_hue_op("set_hue", res, hue)
    /\ UNCHANGED arg

\* Alpha::shift_hue(amount)
AlphaShiftHue ==
    /\ arg.kind = "Alpha hue" /\ op = <<>>
    /\ \E amount \in HueArguments :
          /\ op' = <<"shift_hue", amount>>
          /\ res' = Alpha_hue_op("shift_hue", res, amount)
    /\ UNCHANGED arg

\* Alpha::shift_hue_assign(amount)
AlphaShiftHueAssign ==
    /\ arg.kind = "Alpha hue" /\ op = <<>>
    /\ \E amount \in HueArguments :
          /\ op' = <<"shift_hue_assign", amount>>
          /\ res' = Alpha_hue_op("shift_hue_assign", res, amount)
    /\ UNCHANGED arg

NextConvert ==
    \/ RgbFromRgb
    \/ IntoLinear
    \/ FromLinear
    \/ RgbFromHsl
    \/ RgbFromHsv
    \/ LabFromXyz
    \/ LuvFromXyz
    \/ XyzFromLab
    \/ XyzFromLuv
    \/ AlphaFromColorUnclamped
    \/ RgbaIntoLinear
    \/ RgbaFromLinear
    \/ RgbaIntoEncoding
    \/ RgbaFromEncoding
    \/ XyzaWithWhitePoint
    \/ AlphaWithHue
    \/ AlphaSetHue
    \/ AlphaShiftHue
    \/ AlphaShiftHueAssign

SpecConvert == InitConvert /\ [][NextConvert]_vars

\* The term of a channel that went through S2's into_linear and then S1's
\* from_linear.
Reencoded(S1, S2, x) ==
    TransferFn_from_linear(S1.TransferFn, TransferFn_into_linear(S2.TransferFn, x))

\* C16: Rgb<S1> from Rgb<S2> takes one of three paths, tested in this order:
\* identical standards return the channels unchanged, no transfer function
\* applied; otherwise equal primaries give, per channel, S1's from_linear of
\* S2's into_linear, no matrix product; otherwise the colour goes to Xyz and
\* from Xyz to Rgb<S1>.  The pivot is not used in the first two cases.
C16_RgbFromRgbPaths ==
    op = <<"Rgb from Rgb">> =>
        IF arg.to.name = arg.from.name THEN res = arg.c
        ELSE IF arg.to.primaries = arg.from.primaries
        THEN res = Rgb(Reencoded(arg.to, arg.from, arg.c.red),
                       Reencoded(arg.to, arg.from, arg.c.green),
                       Reencoded(arg.to, arg.from, arg.c.blue))
        ELSE res = Rgb_from_Xyz(arg.to, Xyz_from_Rgb(arg.from, arg.c))

\* Srgb from Srgb: same space and a transfer function that is not the
\* identity, yet the channels come back as they were.
C16_Witness ==
    /\ op = <<"Rgb from Rgb">>
    /\ arg.to.name = "Srgb" /\ arg.from.name = "Srgb"
    /\ arg.c = Rgb(Scale \div 2, Scale, 0)
    /\ res = Rgb(Scale \div 2, Scale, 0)

\* The divisors a conversion evaluated, as a set.
DivisorsOf(r) == {r.divisors[i] : i \in DOMAIN r.divisors}

\* C17: Xyz to Luv returns the zero colour whenever X + 15Y + 3Z = 0,
\* whatever X, Y and Z are, and Luv to Xyz returns the zero colour whenever
\* L < 1e-5, negative L included, whatever u and v are; in both cases the
\* result is returned before any division by the vanishing quantity.
C17_ZeroColourShortCircuit ==
    /\ (op = <<"Luv from Xyz">> /\ arg.c.x + 15 * arg.c.y + 3 * arg.c.z = 0) =>
          /\ res.value = Luv(0, 0, 0)
          /\ \A d \in DivisorsOf(res) : d.of # "prime_denom" /\ d.d # 0
    /\ (op = <<"Xyz from Luv">> /\ arg.c.l * 100000 < Scale) =>
          /\ res.value = Xyz(0, 0, 0)
          /\ \A d \in DivisorsOf(res) :
                d.of \notin {"13.0 * color.l", "v_prime"} /\ d.d # 0

\* X + 15Y + 3Z = 0 with X and Y not zero: the zero colour, and no division.
C17_Witness ==
    /\ op = <<"Luv from Xyz">>
    /\ arg.c = Xyz(15 * Excess, 0 - Excess, 0)
    /\ res = Converted(Luv(0, 0, 0), <<>>)

\* C18: Xyz to Lab, Lab to Xyz, Xyz to Luv and Luv to Xyz are total: for
\* every input with finite channels, every division they evaluate has a
\* divisor that is not zero.
C18_DivisorsNeverZero ==
    op \in {<<"Lab from Xyz">>, <<"Xyz from Lab">>, <<"Luv from Xyz">>, <<"Xyz from Luv">>}
        => \A d \in DivisorsOf(res) : d.d # 0

\* h, c, x and m of the input, as the claim names them.
SectorH == (to_positive_degrees(arg.c.hue) * Scale) \div from_f64(60)

SectorC ==
    IF arg.kind = "Hsl"
    THEN ((Scale - abs(2 * arg.c.lightness - Scale)) * arg.c.saturation) \div Scale
    ELSE (arg.c.value * arg.c.saturation) \div Scale

SectorX == (SectorC * (Scale - abs((SectorH % (2 * Scale)) - Scale))) \div Scale

SectorM ==
    IF arg.kind = "Hsl" THEN arg.c.lightness - (SectorC * (Scale \div 2)) \div Scale
    ELSE arg.c.value - SectorC

\* What the six sectors yield before m is added, in order.
SectorTable ==
    <<<<SectorC, SectorX, 0>>, <<SectorX, SectorC, 0>>, <<0, SectorC, SectorX>>,
      <<0, SectorX, SectorC>>, <<SectorX, 0, SectorC>>, <<SectorC, 0, SectorX>>>>

FromSector(k) ==
    Rgb(SectorTable[k + 1][1] + SectorM, SectorTable[k + 1][2] + SectorM,
        SectorTable[k + 1][3] + SectorM)

\* C19: in Rgb from Hsv and Rgb from Hsl, with h = positive-degree hue / 60,
\* sector k (k = 0..4) is selected exactly when k <= h < k + 1 and the sixth
\* for h in [5, 6); the sectors yield, before m is added to every channel,
\* (c,x,0), (x,c,0), (0,c,x), (0,x,c), (x,0,c), (c,0,x) in that order, and
\* the sector depends on the hue alone, so Hsv and Hsl select the same one.
\* Where c, x and 0 differ the result tells the sector that was selected.
C19_SectorSelection ==
    op \in {<<"Rgb from Hsl">>, <<"Rgb from Hsv">>} =>
        \A k \in 0..(SectorsPerTurn - 1) :
           /\ (k * Scale <= SectorH /\ SectorH < (k + 1) * Scale) => res = FromSector(k)
           /\ (res = FromSector(k) /\ SectorC # 0 /\ SectorX # 0 /\ SectorX # SectorC)
                 => (k * Scale <= SectorH /\ SectorH < (k + 1) * Scale)

\* Hue 330 degrees, h = 5.5 in the sixth sector: (c, 0, x) + m.
C19_Witness ==
    /\ op = <<"Rgb from Hsv">>
    /\ arg.c = Hsv(from_f64(330), Scale, Scale)
    /\ 5 * Scale <= SectorH /\ SectorH < 6 * Scale
    /\ SectorX # 0 /\ SectorX # SectorC
    /\ res = Rgb(SectorC, 0, SectorX)

\* e is the constant g = 2.2 on the grid, and e is 1 / g on the grid.
IsGamma(e) == e * 10 <= 22 * Scale /\ 22 * Scale < (e + 1) * 10

IsGammaRecip(e) ==
    \E g \in 2 * Scale..3 * Scale :
       IsGamma(g) /\ e * g <= Scale * Scale /\ Scale * Scale < (e + 1) * g

\* t is x raised to an exponent, x as it was given.
IsPower(t, x) == DOMAIN t = {"fn", "base", "exp"} /\ t.fn = "powf" /\ t.base = x

OnUnwrappedColor ==
    CASE op[1] = "from_color_unclamped" ->
            (CASE arg.from = op[2] -> arg.c.color
               [] arg.from = "Xyz" /\ op[2] = "Lab" -> Lab_from_Xyz(arg.Wp, arg.c.color).value
               [] arg.from = "Xyz" /\ op[2] = "Luv" -> Luv_from_Xyz(arg.Wp, arg.c.color).value
               [] arg.from = "Lab" /\ op[2] = "Xyz" -> Xyz_from_Lab(arg.Wp, arg.c.color).value
               [] arg.from = "Luv" /\ op[2] = "Xyz" -> Xyz_from_Luv(arg.Wp, arg.c.color).value)
      [] op[1] = "Rgba into_linear" -> Rgb_into_linear(arg.S, arg.c.color)
      [] op[1] = "Rgba from_linear" -> Rgb_from_linear(arg.S, arg.c.color)
      [] op[1] = "Rgba into_encoding" -> Rgb_into_encoding(arg.S, arg.St, arg.c.color)
      [] op[1] = "Rgba from_encoding" -> Rgb_from_encoding(arg.S, arg.St, arg.c.color)
      [] op[1] = "with_white_point" -> Xyz_with_white_point(arg.c.color)
      [] op[1] \in {"with_hue", "set_hue", "shift_hue", "shift_hue_assign"} ->
            hue_op(op[1], arg.c.color, op[2])

\* C28: every Alpha operation that converts or re-encodes the colour or
\* touches only its hue (from_color_unclamped between Alpha types, Rgba
\* into_linear, from_linear, into_encoding and from_encoding, Xyza
\* with_white_point, with_hue, set_hue, shift_hue and shift_hue_assign)
\* returns or leaves an alpha equal to the input alpha, for every input, and
\* a colour part equal to the same operation on the unwrapped colour.
C28_AlphaAsItWas ==
    (arg.kind \in {"Alpha", "Rgba", "Alpha hue"} /\ op # <<>>) =>
        /\ res.alpha = arg.c.alpha
        /\ res.color = OnUnwrappedColor

\* An Xyza with alpha above one converted to Laba keeps that alpha.
C28_Witness ==
    /\ arg.kind = "Alpha" /\ arg.from = "Xyz"
    /\ op = <<"from_color_unclamped", "Lab">>
    /\ arg.c.alpha = Scale + Excess
    /\ res.alpha = Scale + Excess
    /\ res.color # arg.c.color

(***************************************************************************)
(* Alpha: arithmetic.                                                      *)
(***************************************************************************)
\* a o b as the claim reads it: the sum, difference, product or quotient.
Combined(o, a, b) ==
    CASE o = "+" -> a + b
      [] o = "-" -> a - b
      [] o = "*" -> (a * b) \div Scale
      [] o = "/" -> (a * Scale) \div b

\* y is x o k, where that is a number.
Applies(o, x, k, y) == (o = "/" => k # 0) => y = Combined(o, x, k)

\* C30: arithmetic between an Alpha colour and a scalar c (+, -, *, / and
\* their assign forms) applies c to the alpha channel as well as to every
\* colour channel, and arithmetic between two Alpha colours combines the two
\* alphas with the same operator as the colours; the resulting alpha is not
\* clamped to [zero, max_intensity].
C30_AlphaArithmetic ==
    (Len(op) = 3 /\ op[1] = "arithmetic") =>
        /\ op[3] \in {"scalar", "assign scalar"} =>
              /\ Applies(op[2], arg.c.alpha, arg.factor, res.alpha)
              /\ \A f \in DOMAIN arg.c.color :
                    Applies(op[2], arg.c.color[f], arg.factor, res.color[f])
        /\ op[3] \in {"Alpha", "assign Alpha"} =>
              /\ Applies(op[2], arg.c.alpha, arg.other.alpha, res.alpha)
              /\ \A f \in DOMAIN arg.c.color :
                    Applies(op[2], arg.c.color[f], arg.other.color[f], res.color[f])

\* A scalar added to an opaque colour: the alpha leaves [0, 1].
C30_Witness ==
    /\ op = <<"arithmetic", "+", "scalar">>
    /\ arg.factor > 0
    /\ arg.c.alpha = max_intensity(arg.ty.T)
    /\ res.alpha = max_intensity(arg.ty.T) + arg.factor
    /\ res.alpha > Alpha_max_alpha(arg.ty)

(***************************************************************************)
(* Rounding.  On the grid of Scale a sum is exact; a binary floating-point *)
(* number has a fixed count of significant bits, so every sum, difference, *)
(* product and quotient is rounded to the nearest number of that many      *)
(* bits, ties to the even one.  Here a float is an integer count of units  *)
(* of 2^-FractionBits with at most SignificandBits significant bits (f32   *)
(* has 24), and the Hsl and Hsv conversions are evaluated in that format.  *)
(***************************************************************************)
\* The significant bits of a float: enough to hold 60 and 360 exactly.
SignificandBits == 6

\* The bits after the binary point of the smallest float.
FractionBits == 9

RECURSIVE Pow2(_)
Pow2(n) == IF n <= 0 THEN 1 ELSE 2 * Pow2(n - 1)

RECURSIVE Log2(_)
Log2(n) == IF n < 2 THEN 0 ELSE 1 + Log2(n \div 2)

\* The gap between the floats around n / d, for n >= 0 and d > 0.
Float_ulp(n, d) == Pow2(Log2(n \div d) - (SignificandBits - 1))

\* n / d rounded to the nearest float, ties to even, for n >= 0 and d > 0.
Float_round_ties_even(n, d) ==
    LET q == Float_ulp(n, d)
        k == n \div (d * q)
        r == n - k * d * q
    IN IF 2 * r < d * q \/ (2 * r = d * q /\ k % 2 = 0) THEN k * q ELSE (k + 1) * q

Float_round(n, d) ==
    IF n < 0 THEN 0 - Float_round_ties_even(0 - n, d) ELSE Float_round_ties_even(n, d)

Float_one == Pow2(FractionBits)

Float_from_f64(k) == Float_round(k * Float_one, 1)

Float_add(a, b) == Float_round(a + b, 1)

Float_sub(a, b) == Float_round(a - b, 1)

Float_mul(a, b) == Float_round(a * b, Float_one)

Float_div(a, b) == Float_round(a * Float_one, b)

\* RgbHue::to_positive_degrees: the angle in [0, 360); a remainder is exact
Float_to_positive_degrees(hue) == hue % Float_from_f64(360)

\* The branches on h of rgb.rs 503-522 and 536-555, every sum rounded.
Float_Rgb_from_sector(c, x, m, h) ==
    LET rgb == IF h >= 0 /\ h < Float_one THEN <<c, x, 0>>
               ELSE IF h >= Float_one /\ h < Float_from_f64(2) THEN <<x, c, 0>>
               ELSE IF h >= Float_from_f64(2) /\ h < Float_from_f64(3) THEN <<0, c, x>>
               ELSE IF h >= Float_from_f64(3) /\ h < Float_from_f64(4) THEN <<0, x, c>>
               ELSE IF h >= Float_from_f64(4) /\ h < Float_from_f64(5) THEN <<x, 0, c>>
               ELSE <<c, 0, x>>
    IN Rgb(Float_add(rgb[1], m), Float_add(rgb[2], m), Float_add(rgb[3], m))

\* Rgb<S, T> from Hsl<S, T>, every operation rounded
Float_Rgb_from_Hsl(hsl) ==
    LET c == Float_mul(Float_sub(Float_one,
                                 abs(Float_sub(Float_mul(hsl.lightness, Float_from_f64(2)),
                                               Float_one))),
                       hsl.saturation)
        h == Float_div(Float_to_positive_degrees(hsl.hue), Float_from_f64(60))
        x == Float_mul(c, Float_sub(Float_one,
                                    abs(Float_sub(h % Float_from_f64(2), Float_one))))
        m == Float_sub(hsl.lightness, Float_mul(c, Float_one \div 2))
    IN Float_Rgb_from_sector(c, x, m, h)

\* Rgb<S, T> from Hsv<S, T>, every operation rounded
Float_Rgb_from_Hsv(hsv) ==
    LET c == Float_mul(hsv.value, hsv.saturation)
        h == Float_div(Float_to_positive_degrees(hsv.hue), Float_from_f64(60))
        x == Float_mul(c, Float_sub(Float_one,
                                    abs(Float_sub(h % Float_from_f64(2), Float_one))))
        m == Float_sub(hsv.value, c)
    IN Float_Rgb_from_sector(c, x, m, h)

\* The numbers of a set that are floats.
Floats(S) == {a \in S : Float_round(a, 1) = a}

\* Hues in [0, 360): every eighth degree that is a float.
FloatHues == Floats({8 * d * Float_one : d \in 0..44})

\* Unit-interval values: zero, the three smallest floats, the quarters, the
\* two floats next to a half and the float below one.
FloatUnit ==
    Floats({0, 1, 2, 3, Float_one \div 4, Float_one \div 2 - 1, Float_one \div 2,
            Float_one \div 2 + Float_ulp(Float_one \div 2, 1),
            Float_one - Float_ulp(Float_one \div 2, 1), Float_one})

FloatHslInputs(hue) ==
    {[kind |-> "Hsl", c |-> Hsl(hue, saturation, lightness)] :
        saturation \in FloatUnit, lightness \in FloatUnit}

FloatHsvInputs(hue) ==
    {[kind |-> "Hsv", c |-> Hsv(hue, saturation, value)] :
        saturation \in FloatUnit, value \in FloatUnit}

InitRounding ==
    /\ op = <<>>
    /\ \E hue \in FloatHues : arg \in FloatHslInputs(hue) \cup FloatHsvInputs(hue)
    /\ res = arg.c

\* Rgb::<S, T>::from_color_unclamped(hsl: Hsl<S, T>)
FloatRgbFromHsl ==
    /\ arg.kind = "Hsl" /\ op = <<>>
    /\ op' = <<"Rgb from Hsl, rounded">>
    /\ res' = Float_Rgb_from_Hsl(res)
    /\ UNCHANGED arg

\* Rgb::<S, T>::from_color_unclamped(hsv: Hsv<S, T>)
FloatRgbFromHsv ==
    /\ arg.kind = "Hsv" /\ op = <<>>
    /\ op' = <<"Rgb from Hsv, rounded">>
    /\ res' = Float_Rgb_from_Hsv(res)
    /\ UNCHANGED arg

NextRounding ==
    \/ FloatRgbFromHsl
    \/ FloatRgbFromHsv

SpecRounding == InitRounding /\ [][NextRounding]_vars

\* The channels of the result.
ResultChannels == {res.red, res.green, res.blue}

C27_InUnitRange == \A ch \in ResultChannels : 0 <= ch /\ ch <= Float_one

C27_HsvExtremes ==
    /\ \E ch \in ResultChannels : ch = arg.c.value
    /\ \A ch \in ResultChannels : ch <= arg.c.value
    /\ \E ch \in ResultChannels :
          ch = Float_mul(arg.c.value, Float_sub(Float_one, arg.c.saturation))
    /\ \A ch \in ResultChannels :
          ch >= Float_mul(arg.c.value, Float_sub(Float_one, arg.c.saturation))

\* C27: for every hue in [0, 360) degrees, Rgb from Hsv with saturation and
\* value in [0, 1] and Rgb from Hsl with saturation and lightness in [0, 1]
\* yield red, green and blue within [0, 1]; for Hsv the largest channel
\* equals value and the smallest equals value * (1 - saturation); with
\* saturation 0 the three channels are equal.
C27_HslHsvInGamut ==
    op \in {<<"Rgb from Hsl, rounded">>, <<"Rgb from Hsv, rounded">>} =>
        /\ C27_InUnitRange
        /\ op = <<"Rgb from Hsv, rounded">> => C27_HsvExtremes
        /\ arg.c.saturation = 0 => res.red = res.green /\ res.green = res.blue

(***************************************************************************)
(* Exact arithmetic.  The break points of the CIE transforms, (6/29)^3 and *)
(* 6/29, lie below or between the points of the grid of Scale, so the      *)
(* transforms are evaluated here on fractions n / d in lowest terms.  A    *)
(* cube root is taken of cubes of fractions only, where it is exact.       *)
(***************************************************************************)
\* The largest numerator p of a sampled fraction p / q.
MaxNumerator == 12

\* The largest cube root looked for.
RootLimit == 40

RECURSIVE Gcd(_, _)
Gcd(a, b) == IF b = 0 THEN a ELSE Gcd(b, a % b)

\* n / d in lowest terms, d > 0
Frac(n, d) ==
    LET g == Gcd(abs(n), abs(d))
        sign == IF d < 0 THEN 0 - 1 ELSE 1
    IN [n |-> sign * (n \div g), d |-> sign * (d \div g)]

\* The numerator of a over the least common denominator of a and b.
Over(a, b) == a.n * (b.d \div Gcd(a.d, b.d))

Frac_add(a, b) == Frac(Over(a, b) + Over(b, a), a.d * (b.d \div Gcd(a.d, b.d)))

Frac_sub(a, b) == Frac(Over(a, b) - Over(b, a), a.d * (b.d \div Gcd(a.d, b.d)))

Frac_mul(a, b) ==
    LET g1 == Gcd(abs(a.n), b.d)
        g2 == Gcd(abs(b.n), a.d)
    IN Frac((a.n \div g1) * (b.n \div g2), (a.d \div g2) * (b.d \div g1))

\* a.recip(), for a # 0
Frac_recip(a) == Frac(a.d, a.n)

Frac_gt(a, b) == Over(a, b) > Over(b, a)

Frac_lt(a, b) == Over(a, b) < Over(b, a)

Frac_le(a, b) == Over(a, b) <= Over(b, a)

Frac_powi3(a) == Frac_mul(Frac_mul(a, a), a)

\* The cube root of n >= 0, a cube.
Root3(n) == CHOOSE k \in 0..RootLimit : k * k * k = n

\* a.cbrt(), and a.powf(1.0 / 3.0) for a > 0, of the cube of a fraction
Frac_cbrt(a) ==
    IF a.n < 0 THEN Frac(0 - Root3(0 - a.n), Root3(a.d)) ELSE Frac(Root3(a.n), Root3(a.d))

\* A convert of Lab from Xyz that switches at the break point of Xyz from Lab.
Lab_convert_exact_inverse_break(c) ==
    LET epsilon == Frac(6, 29)
        kappa == Frac(841, 108)
        delta == Frac(4, 29)
    IN IF Frac_gt(c, epsilon) THEN Frac_cbrt(c) ELSE Frac_add(Frac_mul(kappa, c), delta)

\* convert of Lab from Xyz (lab.rs 179-188)
Lab_convert_exact(c) ==
    LET epsilon == Frac_powi3(Frac(6, 29))
        kappa == Frac(841, 108)
        delta == Frac(4, 29)
    IN IF Frac_gt(c, epsilon) THEN Frac_cbrt(c) ELSE Frac_add(Frac_mul(kappa, c), delta)

\* convert of Xyz from Lab (xyz.rs 237-247)
Xyz_convert_exact(c) ==
    LET epsilon == Frac(6, 29)
        kappa == Frac(108, 841)
        delta == Frac(4, 29)
    IN IF Frac_gt(c, epsilon) THEN Frac_powi3(c) ELSE Frac_mul(Frac_sub(c, delta), kappa)

\* l of Luv from Xyz for the relative luminance y_r (luv.rs 185-186, 201-206)
Luv_l_exact(y_r) ==
    LET kappa == Frac_powi3(Frac(29, 3))
        epsilon == Frac_powi3(Frac(6, 29))
    IN IF Frac_gt(y_r, epsilon)
       THEN Frac_sub(Frac_mul(Frac(116, 1), Frac_cbrt(y_r)), Frac(16, 1))
       ELSE Frac_mul(kappa, y_r)

\* y of Xyz from Luv before the product with w.y (xyz.rs 261, 268-275)
Xyz_y_exact(l) ==
    LET kappa == Frac_powi3(Frac(29, 3))
    IN IF Frac_lt(l, Frac(1, 100000)) THEN Frac(0, 1)
       ELSE IF Frac_gt(l, Frac(8, 1))
       THEN Frac_powi3(Frac_mul(Frac_add(l, Frac(16, 1)), Frac_recip(Frac(116, 1))))
       ELSE Frac_mul(l, Frac_recip(kappa))

\* Components and luminances: cubes of fractions on both sides of 6 / 29
\* (1/5 and 5/24 are its neighbours), cubes below zero, and thousandths,
\* which all lie below (6/29)^3.
ExactSamples ==
    {Frac_powi3(Frac(p, q)) : p \in (0 - 2)..MaxNumerator, q \in {5, 24, 29}}
        \cup {Frac_powi3(Frac(0 - p, 29)) : p \in 3..MaxNumerator}
        \cup {Frac(n, 1000) : n \in (0 - 3)..8}

InitExact ==
    /\ op = <<>>
    /\ \E c \in ExactSamples : arg \in {[kind |-> "component", c |-> c],
                                        [kind |-> "luminance", c |-> c]}
    /\ res = arg.c

\* convert(c) in Lab from Xyz
LabConvert ==
    /\ arg.kind = "component" /\ op = <<>>
    /\ op' = <<"Lab convert">>
    /\ res' = Lab_convert_exact(res)
    /\ UNCHANGED arg

\* convert(c) in Xyz from Lab, of the outcome of Lab's
XyzConvert ==
    /\ op = <<"Lab convert">>
    /\ op' = <<"Lab convert", "Xyz convert">>
    /\ res' = Xyz_convert_exact(res)
    /\ UNCHANGED arg

\* l in Luv from Xyz
LuvLightness ==
    /\ arg.kind = "luminance" /\ op = <<>>
    /\ op' = <<"Luv l">>
    /\ res' = Luv_l_exact(res)
    /\ UNCHANGED arg

\* y in Xyz from Luv, of the outcome of Luv's
XyzLuminance ==
    /\ op = <<"Luv l">>
    /\ op' = <<"Luv l", "Xyz y">>
    /\ res' = Xyz_y_exact(res)
    /\ UNCHANGED arg

NextExact ==
    \/ LabConvert
    \/ XyzConvert
    \/ LuvLightness
    \/ XyzLuminance

SpecExact == InitExact /\ [][NextExact]_vars

\* The break point (6/29)^3 and the linear pieces, as the claim states them.
BreakPoint == Frac(6 * 6 * 6, 29 * 29 * 29)

LabLinear(c) == Frac_add(Frac_mul(Frac(841, 108), c), Frac(4, 29))

LuvLinear(y) == Frac_mul(Frac(29 * 29 * 29, 27), y)

\* C29: the forward and inverse CIE transforms switch branches at
\* corresponding points.  Xyz to Lab takes the linear branch
\* (841/108) c + 4/29 exactly when c <= (6/29)^3; its image is then <= 6/29;
\* Lab to Xyz applies (f - 4/29) (108/841) to it and returns c exactly, and
\* the cube undoes the cube root.  Xyz to Luv takes the linear branch
\* L = (29/3)^3 y exactly when y <= (6/29)^3, which holds exactly when
\* L <= 8, where Luv to Xyz uses L / (29/3)^3.
C29_BranchesCorrespond ==
    /\ op = <<"Lab convert">> =>
          /\ Frac_le(arg.c, BreakPoint) <=> res = LabLinear(arg.c)
          /\ Frac_le(arg.c, BreakPoint) => Frac_le(res, Frac(6, 29))
          /\ Frac_gt(arg.c, BreakPoint) => Frac_gt(res, Frac(6, 29))
    /\ op = <<"Lab convert", "Xyz convert">> =>
          /\ res = arg.c
          /\ Frac_le(arg.c, BreakPoint) =>
                res = Frac_mul(Frac_sub(LabLinear(arg.c), Frac(4, 29)), Frac(108, 841))
    /\ op = <<"Luv l">> =>
          /\ Frac_le(arg.c, BreakPoint) <=> res = LuvLinear(arg.c)
          /\ Frac_le(arg.c, BreakPoint) <=> Frac_le(res, Frac(8, 1))
    /\ op = <<"Luv l", "Xyz y">> =>
          /\ Frac_gt(arg.c, BreakPoint) => res = arg.c
          /\ ((Frac_le(arg.c, BreakPoint) /\ ~Frac_lt(LuvLinear(arg.c), Frac(1, 100000)))
                => (res = Frac_mul(LuvLinear(arg.c), Frac(27, 29 * 29 * 29)) /\ res = arg.c))

\* The break point itself: the linear branch yields 6/29 and the inverse's
\* linear branch returns (6/29)^3.
C29_Witness ==
    /\ op = <<"Lab convert", "Xyz convert">>
    /\ arg.c = BreakPoint
    /\ LabLinear(arg.c) = Frac(6, 29)
    /\ res = BreakPoint

====
